---- MODULE Spec2Model ----
(***************************************************************************)
(* A model of httpie's download engine (httpie/downloads.py): Content-Range *)
(* validation, the Download object and its Status, the stream that feeds    *)
(* the chunk callback, and the progress reporter thread; and of its output  *)
(* streams (httpie/output/streams.py) over a message (httpie/models.py).    *)
(*                                                                          *)
(* Conventions.  Python's None is the empty tuple <<>> and a present value  *)
(* v is <<v>>, so that an optional number never has to be compared with a   *)
(* value of another type.  Header values are sequences of one-character     *)
(* strings.  time() is an integer clock of one-second resolution.           *)
(***************************************************************************)
EXTENDS Integers, Sequences, FiniteSets, TLC

(***************************************************************************)
(* Bounds of the model.                                                     *)
(***************************************************************************)
\* Largest byte position written in a generated Content-Range header.
MaxPos == 2
\* Largest number of body bytes a response delivers.
MaxBody == 2
\* Largest size of the output file that exists before the download.
MaxFile == 2
\* Largest value of the clock.
MaxTime == 2
\* The longest message body, in bytes.
MaxBytes == 3
MaxDigits == 7
MaxPrecision == 2

None == <<>>
Some(v) == <<v>>
IsNone(x) == x = <<>>
Val(x) == x[1]

(***************************************************************************)
(* Text: decimal digits, str.format('%d') and int().                        *)
(***************************************************************************)
DigitChars == <<"0", "1", "2", "3", "4", "5", "6", "7", "8", "9">>

IsDigit(c) == \E i \in 1..10 : DigitChars[i] = c

DigitValue(c) == (CHOOSE i \in 1..10 : DigitChars[i] = c) - 1

RECURSIVE FormatInt(_)
\* '%d' % n for n >= 0
FormatInt(n) ==
    IF n < 10 THEN <<DigitChars[n + 1]>>
    ELSE FormatInt(n \div 10) \o <<DigitChars[(n % 10) + 1]>>

RECURSIVE ParseInt(_)
\* int(s) for a non-empty sequence of digits
ParseInt(s) ==
    IF Len(s) = 0 THEN 0
    ELSE ParseInt(SubSeq(s, 1, Len(s) - 1)) * 10 + DigitValue(s[Len(s)])

RECURSIVE DigitRun(_, _)
\* The number of consecutive digits of s from position i on: what a greedy
\* \d+ consumes there (the pattern never follows \d+ by another digit).
DigitRun(s, i) ==
    IF i <= Len(s) /\ IsDigit(s[i]) THEN 1 + DigitRun(s, i + 1) ELSE 0

\* '\Z': the end of the string only.
AtEndOfString(s, i) == i = Len(s) + 1

\* '$': the end of the string, or just before a newline that ends it.
AtEnd(s, i) == i = Len(s) + 1 \/ (i = Len(s) /\ s[i] = "\n")

BytesPrefix == <<"b", "y", "t", "e", "s", " ">>

(***************************************************************************)
(* parse_content_range                                                      *)
(***************************************************************************)
\* re.match(pattern, content_range): the groups of the match, or matched
\* FALSE.  instance_length is None for '*'.
MatchContentRange(s) ==
    LET p1 == Len(BytesPrefix) + 1
        n1 == DigitRun(s, p1)
        p2 == p1 + n1 + 1
        n2 == DigitRun(s, p2)
        p3 == p2 + n2 + 1
        n3 == DigitRun(s, p3)
        head == /\ Len(s) >= Len(BytesPrefix)
                /\ SubSeq(s, 1, Len(BytesPrefix)) = BytesPrefix
                /\ n1 >= 1
                /\ p1 + n1 <= Len(s) /\ s[p1 + n1] = "-"
                /\ n2 >= 1
                /\ p2 + n2 <= Len(s) /\ s[p2 + n2] = "/"
        star == head /\ p3 <= Len(s) /\ s[p3] = "*" /\ AtEnd(s, p3 + 1)
        digits == head /\ n3 >= 1 /\ AtEnd(s, p3 + n3)
    IN  IF star \/ digits
        THEN [matched |-> TRUE,
              first_byte_pos |-> ParseInt(SubSeq(s, p1, p1 + n1 - 1)),
              last_byte_pos |-> ParseInt(SubSeq(s, p2, p2 + n2 - 1)),
              instance_length |-> IF star THEN None
                                  ELSE Some(ParseInt(SubSeq(s, p3, p3 + n3 - 1)))]
        ELSE [matched |-> FALSE, first_byte_pos |-> 0, last_byte_pos |-> 0,
              instance_length |-> None]

Raise(e) == [raised |-> TRUE, error |-> e, value |-> 0]
Return(v) == [raised |-> FALSE, error |-> "", value |-> v]

\* The invalid-range test as a single-byte range passing it would have it.
InvalidRangeStrict(first_byte_pos, last_byte_pos, instance_length) ==
    \/ first_byte_pos > last_byte_pos
    \/ (~IsNone(instance_length) /\ Val(instance_length) <= last_byte_pos)

InvalidRange(first_byte_pos, last_byte_pos, instance_length) ==
    \/ first_byte_pos >= last_byte_pos
    \/ (~IsNone(instance_length) /\ Val(instance_length) <= last_byte_pos)

UnexpectedRange(first_byte_pos, last_byte_pos, instance_length, resumed_from) ==
    \/ first_byte_pos # resumed_from
    \/ (~IsNone(instance_length) /\ last_byte_pos + 1 # Val(instance_length))

\* content_range is None or Some(header value).
parse_content_range(content_range, resumed_from) ==
    IF IsNone(content_range) THEN Raise("Missing Content-Range")
    ELSE LET m == MatchContentRange(Val(content_range))
         IN  IF ~m.matched THEN Raise("Invalid Content-Range format")
             ELSE IF InvalidRange(m.first_byte_pos, m.last_byte_pos,
                                  m.instance_length)
             THEN Raise("Invalid Content-Range returned")
             ELSE IF UnexpectedRange(m.first_byte_pos, m.last_byte_pos,
                                     m.instance_length, resumed_from)
             THEN Raise("Unexpected Content-Range returned")
             ELSE Return(m.last_byte_pos + 1)

(***************************************************************************)
(* The Content-Range headers a server is taken to send.                     *)
(***************************************************************************)
\* 'bytes F-L/T' (T a number) or 'bytes F-L/*' (T None); pad writes each
\* number with a leading zero, which \d+ and int() accept.
Header(F, L, T, pad) ==
    LET z == IF pad THEN <<"0">> ELSE <<>>
    IN  BytesPrefix \o z \o FormatInt(F) \o <<"-">> \o z \o FormatInt(L) \o <<"/">>
        \o (IF IsNone(T) THEN <<"*">> ELSE z \o FormatInt(Val(T)))

RangeHeader(F, L, T) == Header(F, L, Some(T), FALSE)

RangeHeaderStar(F, L) == Header(F, L, None, FALSE)

Positions == 0..MaxPos

Lengths == {None} \cup {Some(T) : T \in 0..(MaxPos + 1)}

WellFormedHeaders == {Header(F, L, T, FALSE) : F \in Positions, L \in Positions, T \in Lengths}

PaddedHeaders == {Header(1, L, T, TRUE) : L \in {1, 2}, T \in {None, Some(2), Some(3)}}

\* Header values the pattern does not match.
MalformedHeaders ==
    { <<>>,
      <<"1", "-", "2", "/", "3">>,
      BytesPrefix \o <<"1", "-", "2">>,
      BytesPrefix \o <<"-", "2", "/", "3">>,
      BytesPrefix \o <<"1", "-", "2", "/">>,
      BytesPrefix \o <<"1", "-", "2", "/", "*", "3">>,
      BytesPrefix \o <<"1", "-", "2", "/", "3", " ">>,
      <<"B">> \o Tail(BytesPrefix) \o <<"1", "-", "2", "/", "3">> }

\* Header values followed by a newline.
NewlineHeaders ==
    {Header(F, F + 1, IF star THEN None ELSE Some(F + 2), FALSE) \o <<"\n">> :
        F \in {0, 1}, star \in BOOLEAN}

ContentRangeValues ==
    {None} \cup {Some(h) : h \in WellFormedHeaders \cup MalformedHeaders \cup PaddedHeaders
                                  \cup NewlineHeaders}

(***************************************************************************)
(* Status                                                                   *)
(***************************************************************************)
\* Status.__init__
Status_init ==
    [downloaded |-> 0, total_size |-> None, resumed_from |-> 0,
     time_started |-> None, time_finished |-> None]

\* The outcome of a method: the exception raised ("" for none) and the
\* object as the method leaves it.
Ok(obj) == [error |-> "", obj |-> obj]
Fail(e, obj) == [error |-> e, obj |-> obj]

\* Status.started() without its assertion.
Status_started_unguarded(st, resumed_from, total_size, now) ==
    Ok([st EXCEPT !.total_size = IF ~IsNone(total_size) THEN total_size ELSE @,
                  !.downloaded = resumed_from,
                  !.resumed_from = resumed_from,
                  !.time_started = Some(now)])

\* Status.started(resumed_from, total_size) at time now
Status_started(st, resumed_from, total_size, now) ==
    IF ~IsNone(st.time_started) THEN Fail("AssertionError", st)
    ELSE Ok([st EXCEPT !.total_size = IF ~IsNone(total_size) THEN total_size ELSE @,
                       !.downloaded = resumed_from,
                       !.resumed_from = resumed_from,
                       !.time_started = Some(now)])

\* Status.chunk_downloaded(size) that stores the size instead of adding it.
Status_chunk_downloaded_overwrite(st, size) ==
    IF ~IsNone(st.time_finished) THEN Fail("AssertionError", st)
    ELSE Ok([st EXCEPT !.downloaded = size])

\* Status.chunk_downloaded(size) without its assertion.
Status_chunk_downloaded_unguarded(st, size) ==
    Ok([st EXCEPT !.downloaded = @ + size])

\* Status.chunk_downloaded(size)
Status_chunk_downloaded(st, size) ==
    IF ~IsNone(st.time_finished) THEN Fail("AssertionError", st)
    ELSE Ok([st EXCEPT !.downloaded = @ + size])

\* Status.has_finished
Status_has_finished(st) == ~IsNone(st.time_finished)

\* Status.finished() without its first assertion.
Status_finished_unguarded(st, now) ==
    IF ~IsNone(st.time_finished) THEN Fail("AssertionError", st)
    ELSE Ok([st EXCEPT !.time_finished = Some(now)])

\* Status.finished() at time now
Status_finished(st, now) ==
    IF IsNone(st.time_started) THEN Fail("AssertionError", st)
    ELSE IF ~IsNone(st.time_finished) THEN Fail("AssertionError", st)
    ELSE Ok([st EXCEPT !.time_finished = Some(now)])

(***************************************************************************)
(* Download                                                                 *)
(***************************************************************************)
PARTIAL_CONTENT == 206

\* Download.__init__: output_file is "none" (None), "given" (the file passed
\* in) or "opened" (the file start() opened under a unique name).
Download_init(output_file, resume) ==
    [output_file |-> output_file, resume |-> resume, resumed_from |-> 0,
     finished |-> FALSE]

\* The request headers before pre_request: Accept-Encoding as the client
\* set it ("default"), no Range.
RequestHeaders_init == [accept_encoding |-> "default", range |-> None]

\* 'bytes=%d-' % bytes_have
RangeRequest(bytes_have) == <<"b", "y", "t", "e", "s", "=">> \o FormatInt(bytes_have) \o <<"-">>

\* int(response.headers['Content-Length']), None on KeyError or ValueError.
\* The values modelled are digit strings and strings int() rejects.
ContentLengthOf(header) ==
    IF IsNone(header) THEN None
    ELSE IF Len(Val(header)) > 0 /\ \A i \in 1..Len(Val(header)) : IsDigit(Val(header)[i])
    THEN Some(ParseInt(Val(header)))
    ELSE None

\* Download.pre_request that does not test bytes_have.
Download_pre_request_alwaysRange(dl, headers, file) ==
    LET h1 == [headers EXCEPT !.accept_encoding = "None"]
    IN  IF ~dl.resume THEN [error |-> "", download |-> dl, headers |-> h1]
        ELSE IF dl.output_file = "none"
        THEN [error |-> "AttributeError", download |-> dl, headers |-> h1]
        ELSE [error |-> "",
              download |-> [dl EXCEPT !.resumed_from = file.size],
              headers |-> [h1 EXCEPT !.range = Some(RangeRequest(file.size))]]

\* Download.pre_request(request_headers); file is the output file on disk.
Download_pre_request(dl, headers, file) ==
    LET h1 == [headers EXCEPT !.accept_encoding = "None"]
    IN  IF ~dl.resume THEN [error |-> "", download |-> dl, headers |-> h1]
        ELSE IF dl.output_file = "none"
        THEN [error |-> "AttributeError", download |-> dl, headers |-> h1]
        ELSE IF file.size # 0
        THEN [error |-> "",
              download |-> [dl EXCEPT !.resumed_from = file.size],
              headers |-> [h1 EXCEPT !.range = Some(RangeRequest(file.size))]]
        ELSE [error |-> "", download |-> dl, headers |-> h1]

\* Download.start that keeps the resume offset of a download it treats as
\* fresh.
Download_start_keepsOffset(dl, st, file, response, now) ==
    LET content_length == ContentLengthOf(response.content_length)
        unchanged(e) == [error |-> e, download |-> dl, status |-> st, file |-> file]
        begin(dl2, total_size, file2) ==
            LET r == Status_started(st, dl2.resumed_from, total_size, now)
            IN  [error |-> r.error, download |-> dl2, status |-> r.obj, file |-> file2]
    IN  IF ~IsNone(st.time_started) THEN unchanged("AssertionError")
        ELSE IF dl.output_file # "none"
        THEN IF dl.resume /\ response.status_code = PARTIAL_CONTENT
             THEN LET r == parse_content_range(response.content_range, dl.resumed_from)
                  IN  IF r.raised THEN unchanged("ContentRangeError")
                      ELSE begin(dl, Some(r.value), file)
             ELSE begin(dl, content_length,
                        IF file.seekable THEN [file EXCEPT !.size = 0] ELSE file)
        ELSE begin([dl EXCEPT !.output_file = "opened"], content_length,
                   [size |-> 0, seekable |-> TRUE])

\* Download.start that prefers the Content-Length it parsed to the size
\* validated from Content-Range.
Download_start_contentLengthFirst(dl, st, file, response, now) ==
    LET content_length == ContentLengthOf(response.content_length)
        unchanged(e) == [error |-> e, download |-> dl, status |-> st, file |-> file]
        begin(dl2, total_size, file2) ==
            LET r == Status_started(st, dl2.resumed_from, total_size, now)
            IN  [error |-> r.error, download |-> dl2, status |-> r.obj, file |-> file2]
    IN  IF ~IsNone(st.time_started) THEN unchanged("AssertionError")
        ELSE IF dl.output_file # "none"
        THEN IF dl.resume /\ response.status_code = PARTIAL_CONTENT
             THEN LET r == parse_content_range(response.content_range, dl.resumed_from)
                  IN  IF r.raised THEN unchanged("ContentRangeError")
                      ELSE begin(dl, IF IsNone(content_length) THEN Some(r.value)
                                     ELSE content_length, file)
             ELSE begin([dl EXCEPT !.resumed_from = 0], content_length,
                        IF file.seekable THEN [file EXCEPT !.size = 0] ELSE file)
        ELSE begin([dl EXCEPT !.output_file = "opened"], content_length,
                   [size |-> 0, seekable |-> TRUE])

\* Download.start(response) that truncates the output file before it looks
\* at the Content-Range header.
Download_start_truncatesFirst(dl, st, file, response, now) ==
    LET content_length == ContentLengthOf(response.content_length)
        truncated == IF file.seekable THEN [file EXCEPT !.size = 0] ELSE file
        begin(dl2, total_size, file2) ==
            LET r == Status_started(st, dl2.resumed_from, total_size, now)
            IN  [error |-> r.error, download |-> dl2, status |-> r.obj, file |-> file2]
    IN  IF ~IsNone(st.time_started)
        THEN [error |-> "AssertionError", download |-> dl, status |-> st, file |-> file]
        ELSE IF dl.output_file # "none"
        THEN IF dl.resume /\ response.status_code = PARTIAL_CONTENT
             THEN LET r == parse_content_range(response.content_range, dl.resumed_from)
                  IN  IF r.raised
                      THEN [error |-> "ContentRangeError", download |-> dl, status |-> st,
                            file |-> truncated]
                      ELSE begin(dl, Some(r.value), file)
             ELSE begin([dl EXCEPT !.resumed_from = 0], content_length, truncated)
        ELSE begin([dl EXCEPT !.output_file = "opened"], content_length,
                   [size |-> 0, seekable |-> TRUE])

\* The part of Download.start(response) up to and including
\* self.status.started(...): the Download, the Status and the output file as
\* it leaves them, and the exception it raises.
Download_start(dl, st, file, response, now) ==
    LET content_length == ContentLengthOf(response.content_length)
        unchanged(e) == [error |-> e, download |-> dl, status |-> st, file |-> file]
        begin(dl2, total_size, file2) ==
            LET r == Status_started(st, dl2.resumed_from, total_size, now)
            IN  [error |-> r.error, download |-> dl2, status |-> r.obj, file |-> file2]
    IN  IF ~IsNone(st.time_started) THEN unchanged("AssertionError")
        ELSE IF dl.output_file # "none"
        THEN IF dl.resume /\ response.status_code = PARTIAL_CONTENT
             THEN LET r == parse_content_range(response.content_range, dl.resumed_from)
                  IN  IF r.raised THEN unchanged("ContentRangeError")
                      ELSE begin(dl, Some(r.value), file)
             ELSE begin([dl EXCEPT !.resumed_from = 0], content_length,
                        IF file.seekable THEN [file EXCEPT !.size = 0] ELSE file)
        ELSE begin([dl EXCEPT !.output_file = "opened"], content_length,
                   [size |-> 0, seekable |-> TRUE])

\* Download.finish() without its own assertion.
Download_finish_unguarded(dl, st, now) ==
    LET r == Status_finished_unguarded(st, now)
    IN  [error |-> "", download |-> [dl EXCEPT !.finished = TRUE],
         status |-> [r.obj EXCEPT !.time_finished = Some(now)]]

\* Download.finish()
Download_finish(dl, st, now) ==
    IF dl.finished THEN [error |-> "AssertionError", download |-> dl, status |-> st]
    ELSE LET r == Status_finished(st, now)
         IN  [error |-> r.error, download |-> [dl EXCEPT !.finished = TRUE],
              status |-> r.obj]

\* Python's truth value of an optional number: None and 0 are false.
Truthy(x) == ~IsNone(x) /\ Val(x) # 0

\* Download.interrupted that takes a total size of 0 as known.
Download_interrupted_knownZero(dl, st) ==
    /\ dl.finished
    /\ ~IsNone(st.total_size)
    /\ Val(st.total_size) # st.downloaded

\* Download.interrupted, as a truth value
Download_interrupted(dl, st) ==
    /\ dl.finished
    /\ Truthy(st.total_size)
    /\ Val(st.total_size) # st.downloaded

(***************************************************************************)
(* The stream start() returns: a RawStream over the response body with      *)
(* Download.chunk_downloaded as its callback.                               *)
(***************************************************************************)
\* chunk_size=1024 * 8
DownloadChunkSize == 1024 * 8

\* No stream yet.  state: "none", "active", "exhausted" (StopIteration) or
\* "failed" (the generator died of an exception); body_left: body bytes not
\* yet yielded; pending: the size of the chunk yielded whose callback has
\* not run yet (0: none); yielded, reported: the bytes yielded, and the bytes
\* passed to the callback, so far.
Stream_init == [state |-> "none", body_left |-> 0, pending |-> 0, yielded |-> 0,
                reported |-> 0]

\* RawStream(msg=HTTPResponse(response), with_headers=False, with_body=True, ...)
Stream_new(response) == [Stream_init EXCEPT !.state = "active",
                                            !.body_left = response.body_len]

(***************************************************************************)
(* ProgressReporterThread                                                   *)
(***************************************************************************)
\* update_interval=1
UpdateInterval == 1
\* len(SPINNER)
SpinnerLen == 4

EmptyLine == [form |-> "", downloaded |-> 0, speed |-> <<0, 1>>,
              percentage |-> <<0, 1>>, eta |-> None]

\* ProgressReporterThread.__init__ at time now.  pc: "new" (not started),
\* "while", "if", "sum_up", "report_speed" or "done" (run() returned).
Reporter_init(now) ==
    [pc |-> "new", spinner_pos |-> 0,
     status_line |-> EmptyLine, prev_bytes |-> 0, prev_time |-> now]

\* What was written to progress_file: the banner (the total size it names),
\* the last progress line rendered and the summaries.
Output_init == [banner |-> None, rendered |-> None, summaries |-> <<>>]

\* ProgressReporterThread.stop(): the value of the _should_stop event
ProgressReporterThread_stop(stop) == TRUE

\* Download.failed() that also marks the Download finished.
Download_failed_marksFinished(dl, stop) ==
    [download |-> [dl EXCEPT !.finished = TRUE],
     should_stop |-> ProgressReporterThread_stop(stop)]

\* Download.failed(): the Download and the reporter's _should_stop event
Download_failed(dl, stop) ==
    [download |-> dl, should_stop |-> ProgressReporterThread_stop(stop)]

\* int(a / b) for b # 0: the quotient rounded towards zero.
TruncDiv(a, b) ==
    LET abs(x) == IF x < 0 THEN -x ELSE x
        q == abs(a) \div abs(b)
    IN  IF (a < 0) = (b < 0) THEN q ELSE -q

\* The line report_speed recomputes.  A float a / b is the pair <<a, b>>.
ProgressLine(st, downloaded, speed) ==
    IF ~Truthy(st.total_size)
    THEN [form |-> "PROGRESS_NO_CONTENT_LENGTH", downloaded |-> downloaded,
          speed |-> speed, percentage |-> <<0, 1>>, eta |-> None]
    ELSE LET total == Val(st.total_size)
             s == TruncDiv((total - downloaded) * speed[2], speed[1])
         IN  [form |-> "PROGRESS", downloaded |-> downloaded, speed |-> speed,
              percentage |-> IF total = 0 THEN <<0, 1>> ELSE <<downloaded * 100, total>>,
              eta |-> IF speed[1] = 0 THEN None
                      ELSE Some(<<s \div 3600, (s % 3600) \div 60, (s % 3600) % 60>>)]

\* report_speed that recomputes the line on every tick.
ProgressReporterThread_report_speed_alwaysUpdates(rep, st, now) ==
    LET downloaded == st.downloaded
        speed == IF now - rep.prev_time = 0 THEN <<0, 1>>
                 ELSE <<downloaded - rep.prev_bytes, now - rep.prev_time>>
        line == ProgressLine(st, downloaded, speed)
    IN  [reporter |-> [rep EXCEPT
                         !.status_line = line,
                         !.prev_time = now,
                         !.prev_bytes = downloaded,
                         !.spinner_pos = IF @ + 1 # SpinnerLen THEN @ + 1 ELSE 0,
                         !.pc = "while"],
         rendered |-> [spinner |-> rep.spinner_pos, line |-> line]]

\* ProgressReporterThread.report_speed() at time now, followed by
\* sleep(self._tick): the reporter and what it writes.
ProgressReporterThread_report_speed(rep, st, now) ==
    LET update == now - rep.prev_time >= UpdateInterval
        downloaded == st.downloaded
        speed == IF now - rep.prev_time = 0 THEN <<0, 1>>
                 ELSE <<downloaded - rep.prev_bytes, now - rep.prev_time>>
        line == IF update THEN ProgressLine(st, downloaded, speed)
                ELSE rep.status_line
    IN  [reporter |-> [rep EXCEPT
                         !.status_line = line,
                         !.prev_time = IF update THEN now ELSE @,
                         !.prev_bytes = IF update THEN downloaded ELSE @,
                         !.spinner_pos = IF @ + 1 # SpinnerLen THEN @ + 1 ELSE 0,
                         !.pc = "while"],
         rendered |-> [spinner |-> rep.spinner_pos, line |-> line]]

\* sum_up that reports status.downloaded as the bytes transferred.
ProgressReporterThread_sum_up_countsResumed(st) ==
    LET time_taken == Val(st.time_finished) - Val(st.time_started)
    IN  [downloaded |-> st.downloaded,
         time |-> time_taken,
         speed |-> IF time_taken = 0 THEN <<st.downloaded, 1>>
                   ELSE <<st.downloaded, time_taken>>]

\* ProgressReporterThread.sum_up(): the summary written.
ProgressReporterThread_sum_up(st) ==
    LET actually_downloaded == st.downloaded - st.resumed_from
        time_taken == Val(st.time_finished) - Val(st.time_started)
    IN  [downloaded |-> actually_downloaded,
         time |-> time_taken,
         speed |-> IF time_taken = 0 THEN <<actually_downloaded, 1>>
                   ELSE <<actually_downloaded, time_taken>>]

(***************************************************************************)
(* Messages and output streams (httpie/models.py, httpie/output/streams.py) *)
(*                                                                          *)
(* A byte is one of "1", "\n", "NUL" (b'\0'), "E9" (é in latin1, not valid  *)
(* UTF-8 on its own), "C3", "A9" (é in UTF-8), "EF", "BF", "BD" (U+FFFD in   *)
(* UTF-8), "?", "\r", "H", "a", "b"; a character is one of "1", "\n",       *)
(* "NUL", "é", "FFFD" (U+FFFD), "H", "a", "b", "\r".  Byte strings and      *)
(* texts are sequences of them.                                             *)
(***************************************************************************)
RECURSIVE Concat(_)
\* b''.join(chunks)
Concat(chunks) ==
    IF chunks = <<>> THEN <<>> ELSE Head(chunks) \o Concat(Tail(chunks))

\* bytes.decode(encoding) of one byte: the character, or "" where the
\* decoder raises UnicodeDecodeError.
DecodeByte(b, encoding) ==
    IF b = "E9" THEN (IF encoding = "latin1" THEN "é" ELSE "")
    ELSE b

\* str.encode(encoding, 'replace') of one character
EncodeChar(c, encoding) ==
    IF c = "é"
    THEN CASE encoding = "utf8" -> <<"C3", "A9">>
           [] encoding = "latin1" -> <<"E9">>
           [] OTHER -> <<"?">>
    ELSE IF c = "FFFD"
    THEN IF encoding = "utf8" THEN <<"EF", "BF", "BD">> ELSE <<"?">>
    ELSE <<c>>

\* line.decode(encoding): [error, text]
Decode(bytes, encoding) ==
    IF \E i \in 1..Len(bytes) : DecodeByte(bytes[i], encoding) = ""
    THEN [error |-> "UnicodeDecodeError", text |-> <<>>]
    ELSE [error |-> "", text |-> [i \in 1..Len(bytes) |-> DecodeByte(bytes[i], encoding)]]

\* text.encode(encoding, 'replace')
Encode(text, encoding) ==
    Concat([i \in 1..Len(text) |-> EncodeChar(text[i], encoding)])

\* BINARY_SUPPRESSED_NOTICE, as one opaque byte
BINARY_SUPPRESSED_NOTICE == <<"NOTICE">>

RECURSIVE SplitLines(_)
\* The lines requests' Response.iter_lines yields for a body whose only
\* line terminator is "\n": the body split at each "\n", the terminators
\* dropped, no empty line after a final "\n".
SplitLines(body) ==
    IF body = <<>> THEN <<>>
    ELSE IF \E i \in 1..Len(body) : body[i] = "\n"
    THEN LET i == CHOOSE i \in 1..Len(body) :
                     body[i] = "\n" /\ \A j \in 1..(i - 1) : body[j] # "\n"
         IN  <<SubSeq(body, 1, i - 1)>> \o SplitLines(SubSeq(body, i + 1, Len(body)))
    ELSE <<body>>

\* HTTPResponse.iter_lines / HTTPRequest.iter_lines: the (line, lf) pairs
HTTPMessage_iter_lines(msg) ==
    IF msg.kind = "request" THEN <<[line |-> msg.body, lf |-> <<>>]>>
    ELSE LET lines == SplitLines(msg.body)
         IN  [i \in 1..Len(lines) |-> [line |-> lines[i], lf |-> <<"\n">>]]

\* RawStream.CHUNK_SIZE
RawStream_CHUNK_SIZE == 1024 * 100
\* RawStream.CHUNK_SIZE_BY_LINE
RawStream_CHUNK_SIZE_BY_LINE == 1


\* bytes.decode(encoding, 'replace'): an undecodable byte becomes U+FFFD
DecodeReplace(bytes, encoding) ==
    [i \in 1..Len(bytes) |->
        IF DecodeByte(bytes[i], encoding) = "" THEN "FFFD"
        ELSE DecodeByte(bytes[i], encoding)]

\* text.encode(encoding): [error, bytes], UnicodeEncodeError for a character
\* the encoding has no byte for
EncodeStrict(text, encoding) ==
    IF \E i \in 1..Len(text) :
          \/ text[i] = "é" /\ encoding \notin {"utf8", "latin1"}
          \/ text[i] = "FFFD" /\ encoding # "utf8"
    THEN [error |-> "UnicodeEncodeError", bytes |-> <<>>]
    ELSE [error |-> "", bytes |-> Encode(text, encoding)]

\* The elements of a sequence
Range(seq) == {seq[i] : i \in 1..Len(seq)}

\* chunks joined with sep between them: sep.join(chunks)
RECURSIVE Join(_, _)
Join(chunks, sep) ==
    IF chunks = <<>> THEN <<>>
    ELSE IF Len(chunks) = 1 THEN chunks[1]
    ELSE chunks[1] \o sep \o Join(Tail(chunks), sep)

\* A MIME type or a Content-Type value is the sequence of its words and of
\* the separators "/" and ";" between them; '' is the empty sequence.
\* content_type.split(';')[0]
MimeOf(content_type) ==
    IF \E i \in 1..Len(content_type) : content_type[i] = ";"
    THEN LET i == CHOOSE i \in 1..Len(content_type) :
                     /\ content_type[i] = ";"
                     /\ \A j \in 1..(i - 1) : content_type[j] # ";"
         IN  SubSeq(content_type, 1, i - 1)
    ELSE content_type

\* is_valid_mime: mime and MIME_RE.match(mime), MIME_RE = ^[^/]+/[^/]+$
is_valid_mime(mime) ==
    /\ mime # <<>>
    /\ \E i \in 2..(Len(mime) - 1) :
          /\ mime[i] = "/"
          /\ \A j \in 1..Len(mime) : j # i => mime[j] # "/"

\* json.loads(text) for a text of the characters "1", "\n", "\r", NUL, "é",
\* U+FFFD: a document is a run of digits between optional whitespace;
\* [error, obj], obj the digits of the number
json_loads(text) ==
    LET digits == {i \in 1..Len(text) : text[i] = "1"}
        first == CHOOSE i \in digits : \A j \in digits : i <= j
        last_ == CHOOSE i \in digits : \A j \in digits : j <= i
    IN  IF /\ digits # {}
           /\ \A i \in 1..Len(text) :
                 \/ i \in digits
                 \/ /\ text[i] \in {"\n", "\r"}
                    /\ (i < first \/ i > last_)
        THEN [error |-> "", obj |-> SubSeq(text, first, last_)]
        ELSE [error |-> "ValueError", obj |-> <<>>]

\* json.dumps(obj, sort_keys=True, ensure_ascii=False, indent=4) of a number
json_dumps(obj) == obj

\* JSONFormatter.format_body
JSONFormatter_format_body(body, mime) ==
    IF "json" \in Range(mime)
    THEN LET r == json_loads(body)
         IN  IF r.error # "" THEN body ELSE json_dumps(r.obj)
    ELSE body

\* ElementTree.fromstring(body.encode('utf8')): a document starts with a
\* '<', which no text of the model holds, so the parser raises ParseError.
ElementTree_fromstring(text) ==
    IF \A i \in 1..Len(text) : text[i] # "<"
    THEN [error |-> "ParseError"] ELSE [error |-> ""]

\* XMLFormatter.format_body; the re-indentation of a document that parsed
\* is left out, no text of the model being one.
XMLFormatter_format_body(body, mime) ==
    IF "xml" \in Range(mime)
    THEN IF ElementTree_fromstring(body).error # "" THEN body ELSE body
    ELSE body

\* str.splitlines for the line boundaries "\n", "\r" and "\r\n"
RECURSIVE splitlines(_)
splitlines(text) ==
    LET breaks == {i \in 1..Len(text) : text[i] \in {"\n", "\r"}}
    IN  IF text = <<>> THEN <<>>
        ELSE IF breaks = {} THEN <<text>>
        ELSE LET i == CHOOSE i \in breaks : \A j \in breaks : i <= j
                 n == IF text[i] = "\r" /\ i < Len(text) /\ text[i + 1] = "\n"
                      THEN 2 ELSE 1
             IN  <<SubSeq(text, 1, i - 1)>> \o splitlines(SubSeq(text, i + n, Len(text)))

\* ord(c) of the characters headers are made of
CharOrd(c) ==
    CASE c = "\n" -> 10 [] c = "\r" -> 13 [] c = "1" -> 49 [] c = ":" -> 58
      [] c = "H" -> 72 [] c = "a" -> 97 [] c = "b" -> 98 [] c = "é" -> 233
      [] OTHER -> 0

\* h.split(':')[0]
HeaderName(h) ==
    IF \E i \in 1..Len(h) : h[i] = ":"
    THEN LET i == CHOOSE i \in 1..Len(h) :
                     h[i] = ":" /\ \A j \in 1..(i - 1) : h[j] # ":"
         IN  SubSeq(h, 1, i - 1)
    ELSE h

\* a <= b for two strings
RECURSIVE StrLeq(_, _)
StrLeq(a, b) ==
    IF a = <<>> THEN TRUE
    ELSE IF b = <<>> THEN FALSE
    ELSE IF CharOrd(a[1]) # CharOrd(b[1]) THEN CharOrd(a[1]) < CharOrd(b[1])
    ELSE StrLeq(Tail(a), Tail(b))

\* sorted(lines, key=lambda h: h.split(':')[0]): a stable sort
RECURSIVE SortedByName(_)
SortedByName(lines) ==
    IF lines = <<>> THEN <<>>
    ELSE LET front == SortedByName(SubSeq(lines, 1, Len(lines) - 1))
             x == lines[Len(lines)]
             n == Cardinality({i \in 1..Len(front) :
                                  StrLeq(HeaderName(front[i]), HeaderName(x))})
         IN  SubSeq(front, 1, n) \o <<x>> \o SubSeq(front, n + 1, Len(front))

\* HeadersFormatter.format_headers
HeadersFormatter_format_headers(headers) ==
    LET lines == splitlines(headers)
    IN  Join(SubSeq(lines, 1, 1) \o SortedByName(SubSeq(lines, 2, Len(lines))),
             <<"\r", "\n">>)

\* Formatting.__init__: the enabled plugins of the groups, in the order
\* they are registered; the plugins of the group 'colors' are not part of
\* the source and none is enabled for it.
Formatting_init(groups) ==
    IF "format" \in Range(groups)
    THEN <<"HeadersFormatter", "JSONFormatter", "XMLFormatter">>
    ELSE <<>>

\* Formatting.format_headers
RECURSIVE Formatting_format_headers(_, _)
Formatting_format_headers(enabled_plugins, headers) ==
    IF enabled_plugins = <<>> THEN headers
    ELSE Formatting_format_headers(
             Tail(enabled_plugins),
             IF Head(enabled_plugins) = "HeadersFormatter"
             THEN HeadersFormatter_format_headers(headers) ELSE headers)

\* each plugin's format_body in turn
RECURSIVE ApplyFormatBody(_, _, _)
ApplyFormatBody(enabled_plugins, content, mime) ==
    IF enabled_plugins = <<>> THEN content
    ELSE ApplyFormatBody(
             Tail(enabled_plugins),
             CASE Head(enabled_plugins) = "JSONFormatter" ->
                      JSONFormatter_format_body(content, mime)
               [] Head(enabled_plugins) = "XMLFormatter" ->
                      XMLFormatter_format_body(content, mime)
               [] OTHER -> content,
             mime)

\* Formatting.format_body
Formatting_format_body(enabled_plugins, content, mime) ==
    IF is_valid_mime(mime) THEN ApplyFormatBody(enabled_plugins, content, mime)
    ELSE content

\* Conversion.get_converter: the first registered converter class that
\* supports the mime, or None.  A converter class is [supports, mime,
\* raises]: the mimes it supports, the mime of what it produces, and
\* whether its convert raises.
Conversion_get_converter(converters, mime) ==
    IF /\ is_valid_mime(mime)
       /\ \E i \in 1..Len(converters) : mime \in converters[i].supports
    THEN LET i == CHOOSE i \in 1..Len(converters) :
                     /\ mime \in converters[i].supports
                     /\ \A j \in 1..(i - 1) : mime \notin converters[j].supports
         IN  Some(converters[i])
    ELSE None

\* ConverterPlugin.convert of a plugin that renders each byte as one
\* character (a NUL byte as "1"), or raises: [error, mime, body]
ConverterPlugin_convert(converter, content_bytes) ==
    IF converter.raises
    THEN [error |-> "ConverterError", mime |-> <<>>, body |-> <<>>]
    ELSE [error |-> "", mime |-> converter.mime,
          body |-> [i \in 1..Len(content_bytes) |->
                       CASE content_bytes[i] = "NUL" -> "1"
                         [] content_bytes[i] = "E9" -> "é"
                         [] OTHER -> content_bytes[i]]]

\* No stream built.  pc is where the generator BaseStream.__iter__ resumes:
\* "none" (no stream), "headers", "separator", "body", "notice", "end"
\* (nothing left to yield), "done" (StopIteration raised) or "failed" (an
\* exception left the generator); pos counts the body bytes (RawStream,
\* BufferedPrettyStream) or the lines (EncodedStream, PrettyStream) read,
\* chunks the chunks iter_body has yielded.
OutputStream_init ==
    [cls |-> "", with_headers |-> FALSE, with_body |-> FALSE, chunk_size |-> 0,
     output_encoding |-> "", mime |-> <<>>, formatting |-> <<>>,
     conversion |-> <<>>, pc |-> "none", pos |-> 0, chunks |-> 0]

\* BaseStream.__init__ without its assertion.
BaseStream_init_unchecked(cls, with_headers, with_body) ==
    Ok([OutputStream_init EXCEPT
          !.cls = cls, !.with_headers = with_headers, !.with_body = with_body,
          !.pc = IF with_headers THEN "headers" ELSE "body"])

\* BaseStream.__init__, the generator not yet resumed.
BaseStream_init(cls, with_headers, with_body) ==
    IF ~(with_headers \/ with_body) THEN Fail("AssertionError", OutputStream_init)
    ELSE Ok([OutputStream_init EXCEPT
               !.cls = cls, !.with_headers = with_headers, !.with_body = with_body,
               !.pc = IF with_headers THEN "headers" ELSE "body"])

\* RawStream.__init__
RawStream_init(chunk_size, with_headers, with_body) ==
    LET r == BaseStream_init("RawStream", with_headers, with_body)
    IN  IF r.error # "" THEN r ELSE Ok([r.obj EXCEPT !.chunk_size = chunk_size])

\* EncodedStream.__init__
EncodedStream_init(env, msg, with_headers, with_body) ==
    LET r == BaseStream_init("EncodedStream", with_headers, with_body)
        output_encoding == IF env.stdout_isatty THEN env.stdout_encoding
                           ELSE msg.encoding
    IN  IF r.error # "" THEN r
        ELSE Ok([r.obj EXCEPT !.output_encoding = output_encoding])

\* BaseStream.get_headers
BaseStream_get_headers(msg) == Encode(msg.headers, "utf8")

\* What iter_body does when asked for its next item: "yield" a chunk,
\* "stop" (StopIteration), "suppressed" (BinarySuppressedError) or
\* "error" (another exception), and the new pos.
Yield(chunk, pos) == [kind |-> "yield", chunk |-> chunk, pos |-> pos, error |-> ""]
Stop(pos) == [kind |-> "stop", chunk |-> <<>>, pos |-> pos, error |-> "StopIteration"]
Suppressed(pos) ==
    [kind |-> "suppressed", chunk |-> <<>>, pos |-> pos, error |-> "BinarySuppressedError"]
Error(e, pos) == [kind |-> "error", chunk |-> <<>>, pos |-> pos, error |-> e]

\* RawStream.iter_body that suppresses a chunk holding a NUL byte.
RawStream_iter_body_suppressesBinary(st, msg, size) ==
    LET chunk == IF msg.kind = "request" THEN msg.body
                 ELSE SubSeq(msg.body, st.pos + 1, st.pos + size)
    IN  IF msg.kind = "request" /\ st.pos # 0 THEN Stop(st.pos)
        ELSE IF msg.kind = "response" /\ st.pos = Len(msg.body) THEN Stop(st.pos)
        ELSE IF \E i \in 1..Len(chunk) : chunk[i] = "NUL" THEN Suppressed(st.pos + size)
        ELSE Yield(chunk, IF msg.kind = "request" THEN 1 ELSE st.pos + size)

\* RawStream.iter_body, next item: a request yields its whole body once; a
\* response yields the next size bytes read (iter_content).
RawStream_iter_body(st, msg, size) ==
    IF msg.kind = "request"
    THEN IF st.pos = 0 THEN Yield(msg.body, 1) ELSE Stop(st.pos)
    ELSE IF st.pos = Len(msg.body) THEN Stop(st.pos)
    ELSE Yield(SubSeq(msg.body, st.pos + 1, st.pos + size), st.pos + size)

\* EncodedStream.iter_body that passes over a line holding a NUL byte.
EncodedStream_iter_body_skipsBinary(st, msg) ==
    LET lines == HTTPMessage_iter_lines(msg)
    IN  IF st.pos = Len(lines) THEN Stop(st.pos)
        ELSE LET line == lines[st.pos + 1].line
                 lf == lines[st.pos + 1].lf
                 d == Decode(line, msg.encoding)
             IN  IF \E i \in 1..Len(line) : line[i] = "NUL" THEN Yield(<<>>, st.pos + 1)
                 ELSE IF d.error # "" THEN Error(d.error, st.pos + 1)
                 ELSE Yield(Encode(d.text, st.output_encoding) \o lf, st.pos + 1)

\* EncodedStream.iter_body, next item
EncodedStream_iter_body(st, msg) ==
    LET lines == HTTPMessage_iter_lines(msg)
    IN  IF st.pos = Len(lines) THEN Stop(st.pos)
        ELSE LET line == lines[st.pos + 1].line
                 lf == lines[st.pos + 1].lf
                 d == Decode(line, msg.encoding)
             IN  IF \E i \in 1..Len(line) : line[i] = "NUL" THEN Suppressed(st.pos + 1)
                 ELSE IF d.error # "" THEN Error(d.error, st.pos + 1)
                 ELSE Yield(Encode(d.text, st.output_encoding) \o lf, st.pos + 1)

\* b'\0' in bytes
HasNul(bytes) == \E i \in 1..Len(bytes) : bytes[i] = "NUL"

\* PrettyStream.__init__; BufferedPrettyStream inherits it
PrettyStream_init(cls, env, msg, conversion, formatting, with_headers, with_body) ==
    LET r == EncodedStream_init(env, msg, with_headers, with_body)
    IN  IF r.error # "" THEN r
        ELSE Ok([r.obj EXCEPT !.cls = cls, !.formatting = formatting,
                              !.conversion = conversion,
                              !.mime = MimeOf(msg.content_type)])

\* PrettyStream.get_headers: [error, bytes]
PrettyStream_get_headers(st, msg) ==
    EncodeStrict(Formatting_format_headers(st.formatting, msg.headers),
                 st.output_encoding)

\* PrettyStream.process_body; is_str tells a text chunk from a bytes chunk
PrettyStream_process_body(st, msg, chunk, is_str) ==
    LET text == IF is_str THEN chunk ELSE DecodeReplace(chunk, msg.encoding)
    IN  Encode(Formatting_format_body(st.formatting, text, st.mime),
               st.output_encoding)

\* An item of a pretty stream's iter_body, and self.mime after it
WithMime(r, mime) ==
    [kind |-> r.kind, chunk |-> r.chunk, pos |-> r.pos, error |-> r.error,
     mime |-> mime]

\* PrettyStream.iter_body that never looks for a converter.
PrettyStream_iter_body_noConverter(st, msg) ==
    LET lines == HTTPMessage_iter_lines(msg)
    IN  IF st.pos = Len(lines) THEN WithMime(Stop(st.pos), st.mime)
        ELSE LET line == lines[st.pos + 1].line
                 lf == lines[st.pos + 1].lf
             IN  IF HasNul(line) THEN WithMime(Suppressed(st.pos + 1), st.mime)
                 ELSE WithMime(Yield(PrettyStream_process_body(st, msg, line, FALSE) \o lf,
                                     st.pos + 1), st.mime)

\* PrettyStream.iter_body, next item.  first_chunk is true until a line has
\* been yielded, which is while pos = 0.
PrettyStream_iter_body(st, msg) ==
    LET lines == HTTPMessage_iter_lines(msg)
    IN  IF st.pos = Len(lines) THEN WithMime(Stop(st.pos), st.mime)
        ELSE LET line == lines[st.pos + 1].line
                 lf == lines[st.pos + 1].lf
                 converter == Conversion_get_converter(st.conversion, st.mime)
                 body == Concat([i \in 1..(Len(lines) - st.pos) |->
                                    lines[st.pos + i].line \o lines[st.pos + i].lf])
                 c == ConverterPlugin_convert(Val(converter), body)
             IN  IF HasNul(line)
                 THEN IF st.pos = 0 /\ ~IsNone(converter)
                      THEN IF c.error # ""
                           THEN WithMime(Error(c.error, Len(lines)), st.mime)
                           ELSE WithMime(
                                    Yield(PrettyStream_process_body(
                                              [st EXCEPT !.mime = c.mime], msg, c.body, TRUE),
                                          Len(lines)),
                                    c.mime)
                      ELSE WithMime(Suppressed(st.pos + 1), st.mime)
                 ELSE WithMime(Yield(PrettyStream_process_body(st, msg, line, FALSE) \o lf,
                                     st.pos + 1), st.mime)

\* BufferedPrettyStream.iter_body that processes the body line by line.
BufferedPrettyStream_iter_body_byLine(st, msg) == PrettyStream_iter_body(st, msg)

\* BufferedPrettyStream.iter_body, next item: the whole body is read, up to
\* the chunk with the first NUL byte when no converter supports the mime,
\* then the one chunk is yielded.
BufferedPrettyStream_iter_body(st, msg) ==
    LET body == msg.body
        converter == IF HasNul(body)
                     THEN Conversion_get_converter(st.conversion, st.mime)
                     ELSE None
        c == ConverterPlugin_convert(Val(converter), body)
        nul == CHOOSE i \in 1..Len(body) :
                   body[i] = "NUL" /\ \A j \in 1..(i - 1) : body[j] # "NUL"
    IN  IF st.chunks > 0 THEN WithMime(Stop(st.pos), st.mime)
        ELSE IF HasNul(body) /\ IsNone(converter)
        THEN WithMime(Suppressed(nul), st.mime)
        ELSE IF ~IsNone(converter)
        THEN IF c.error # "" THEN WithMime(Error(c.error, Len(body)), st.mime)
             ELSE WithMime(
                      Yield(PrettyStream_process_body(
                                [st EXCEPT !.mime = c.mime], msg, c.body, TRUE),
                            Len(body)),
                      c.mime)
        ELSE WithMime(Yield(PrettyStream_process_body(st, msg, body, FALSE), Len(body)),
                      st.mime)

\* self.iter_body(), next item, of the stream's class; size is the number
\* of bytes a RawStream's read returns.
iter_body(st, msg, size) ==
    CASE st.cls = "RawStream" -> RawStream_iter_body(st, msg, size)
      [] st.cls = "EncodedStream" -> EncodedStream_iter_body(st, msg)
      [] st.cls = "PrettyStream" -> PrettyStream_iter_body(st, msg)
      [] OTHER -> BufferedPrettyStream_iter_body(st, msg)

\* What partial(RawStream, chunk_size=...) holds
RawStreamType(chunk_size) ==
    [cls |-> "RawStream", chunk_size |-> Some(chunk_size), env |-> None,
     formatting |-> None]

\* get_stream_type that looks at the terminal only.
get_stream_type_ignoresPrettify(env, args) ==
    IF ~env.stdout_isatty
    THEN RawStreamType(IF args.stream THEN RawStream_CHUNK_SIZE_BY_LINE
                       ELSE RawStream_CHUNK_SIZE)
    ELSE [cls |-> "EncodedStream", chunk_size |-> None, env |-> Some(env),
          formatting |-> None]

\* get_stream_type: the class and the arguments the partial holds.
\* args.prettify is the list of formatter groups, false when empty.
get_stream_type(env, args) ==
    IF ~env.stdout_isatty /\ args.prettify = <<>>
    THEN RawStreamType(IF args.stream THEN RawStream_CHUNK_SIZE_BY_LINE
                       ELSE RawStream_CHUNK_SIZE)
    ELSE IF args.prettify # <<>>
    THEN [cls |-> IF args.stream THEN "PrettyStream" ELSE "BufferedPrettyStream",
          chunk_size |-> None, env |-> Some(env),
          formatting |-> Some(Formatting_init(args.prettify))]
    ELSE [cls |-> "EncodedStream", chunk_size |-> None, env |-> Some(env),
          formatting |-> None]

\* Stream(msg=..., with_headers=..., with_body=...) as an element of the
\* chain build_output_stream returns
SubStream(Stream, msg, with_headers, with_body) ==
    [msg |-> msg, Stream |-> Some(Stream), with_headers |-> with_headers,
     with_body |-> with_body, chunks |-> <<>>]

\* [b'\n\n'] as an element of the chain
BlankLines ==
    [msg |-> "", Stream |-> None, with_headers |-> FALSE, with_body |-> FALSE,
     chunks |-> << <<"\n", "\n">> >>]

\* build_output_stream that ends every response body with b'\n\n'.
build_output_stream_alwaysTrailing(args, env) ==
    LET req_h == "OUT_REQ_HEAD" \in args.output_options
        req_b == "OUT_REQ_BODY" \in args.output_options
        resp_h == "OUT_RESP_HEAD" \in args.output_options
        resp_b == "OUT_RESP_BODY" \in args.output_options
        Stream == get_stream_type(env, args)
    IN  (IF req_h \/ req_b THEN <<SubStream(Stream, "request", req_h, req_b)>> ELSE <<>>)
        \o (IF req_b /\ (resp_h \/ resp_b) THEN <<BlankLines>> ELSE <<>>)
        \o (IF resp_h \/ resp_b THEN <<SubStream(Stream, "response", resp_h, resp_b)>>
            ELSE <<>>)
        \o (IF resp_b THEN <<BlankLines>> ELSE <<>>)

\* build_output_stream: the elements of the chain it returns, in order
build_output_stream(args, env) ==
    LET req_h == "OUT_REQ_HEAD" \in args.output_options
        req_b == "OUT_REQ_BODY" \in args.output_options
        resp_h == "OUT_RESP_HEAD" \in args.output_options
        resp_b == "OUT_RESP_BODY" \in args.output_options
        req == req_h \/ req_b
        resp == resp_h \/ resp_b
        Stream == get_stream_type(env, args)
    IN  (IF req THEN <<SubStream(Stream, "request", req_h, req_b)>> ELSE <<>>)
        \o (IF req_b /\ resp THEN <<BlankLines>> ELSE <<>>)
        \o (IF resp THEN <<SubStream(Stream, "response", resp_h, resp_b)>> ELSE <<>>)
        \o (IF env.stdout_isatty /\ resp_b THEN <<BlankLines>> ELSE <<>>)

\* get_unique_filename that tries one suffix only.
get_unique_filename_oneSuffix(filename, exists) ==
    IF filename \notin exists THEN filename ELSE filename \o <<"-">> \o FormatInt(1)

\* The loop of get_unique_filename from the given attempt on; exists is
\* the set of the names that exist.
RECURSIVE get_unique_filename_from(_, _, _)
get_unique_filename_from(filename, exists, attempt) ==
    LET suffix == IF attempt > 0 THEN <<"-">> \o FormatInt(attempt) ELSE <<>>
    IN  IF filename \o suffix \notin exists THEN filename \o suffix
        ELSE get_unique_filename_from(filename, exists, attempt + 1)

\* get_unique_filename
get_unique_filename(filename, exists) == get_unique_filename_from(filename, exists, 0)

\* ---------------------------------------------------------------------
\* humanize_bytes (src/httpie/utils.py).  A byte count is written in base
\* 1024, least significant digit first and with no leading zero, so that
\* 0 is <<>> and 1 << (10 * e) is e zeros followed by a 1.

\* abbrevs, with the factor 1 << (10 * exp) given by its exponent
abbrevs ==
    << [exp |-> 5, suffix |-> <<"P", "B">>],
       [exp |-> 4, suffix |-> <<"T", "B">>],
       [exp |-> 3, suffix |-> <<"G", "B">>],
       [exp |-> 2, suffix |-> <<"M", "B">>],
       [exp |-> 1, suffix |-> <<"k", "B">>],
       [exp |-> 0, suffix |-> <<"B">>] >>

\* n >= 1 << (10 * e)
GeqFactor(n, e) == Len(n) > e

\* The digits of n above and below the factor: n // factor and n % factor.
HighDigits(n, e) == IF Len(n) > e THEN SubSeq(n, e + 1, Len(n)) ELSE <<>>

LowDigits(n, e) == [i \in 1..e |-> IF i <= Len(n) THEN n[i] ELSE 0]

RECURSIVE DigitsValue(_)
DigitsValue(d) == IF d = <<>> THEN 0 ELSE d[1] + 1024 * DigitsValue(Tail(d))

RECURSIVE Pow10(_)
Pow10(p) == IF p = 0 THEN 1 ELSE 10 * Pow10(p - 1)

RECURSIVE TimesSmall(_, _, _)
\* f * m + carry, as the digits that stay below the factor and the carry above
TimesSmall(f, m, carry) ==
    IF f = <<>> THEN [digits |-> <<>>, carry |-> carry]
    ELSE LET v == f[1] * m + carry
             rest == TimesSmall(Tail(f), m, v \div 1024)
         IN  [digits |-> <<v % 1024>> \o rest.digits, carry |-> rest.carry]

\* How a fraction below the factor compares with one half.
AgainstHalf(f) ==
    IF f = <<>> \/ f[Len(f)] < 512 THEN "below"
    ELSE IF f[Len(f)] > 512 \/ \E i \in 1..(Len(f) - 1) : f[i] # 0 THEN "above"
    ELSE "half"

\* The largest exponent of a float, sys.float_info.max_exp: a quotient of
\* 2 ** 1024 or more does not fit a float.
DBL_MAX_EXP == 1024

\* The bits of a float's mantissa, sys.float_info.mant_dig.
DBL_MANT_DIG == 53

\* d.bit_length() for a digit d > 0
BitLength(d) == CHOOSE b \in 1..10 : 2 ^ (b - 1) <= d /\ d < 2 ^ b

RECURSIVE AddAt(_, _, _)
\* n + unit * 1024 ** (i - 1)
AddAt(n, i, unit) ==
    IF i > Len(n) THEN n \o <<unit>>
    ELSE IF n[i] + unit < 1024 THEN [n EXCEPT ![i] = n[i] + unit]
    ELSE AddAt([n EXCEPT ![i] = n[i] + unit - 1024], i + 1, 1)

\* The integer the float n / factor stands for, times factor: n rounded to
\* DBL_MANT_DIG significant bits, a tie to the even neighbour.  (The factors
\* are powers of two, so the division itself loses nothing more.)
RoundToFloat(n) ==
    IF n = <<>> THEN n
    ELSE LET k == 10 * (Len(n) - 1) + BitLength(n[Len(n)]) - DBL_MANT_DIG
         IN  IF k <= 0 THEN n
             ELSE LET a == k \div 10
                      b == k % 10
                      unit == 2 ^ b
                      kept == n[a + 1] - (n[a + 1] % unit)
                      droppedTop == IF b > 0 THEN n[a + 1] % unit ELSE n[a]
                      halfTop == IF b > 0 THEN unit \div 2 ELSE 512
                      restZero == \A i \in 1..(IF b > 0 THEN a ELSE a - 1) : n[i] = 0
                      up == \/ droppedTop > halfTop
                            \/ droppedTop = halfTop /\ ~restZero
                            \/ droppedTop = halfTop /\ (kept \div unit) % 2 = 1
                      truncated == [i \in 1..Len(n) |->
                                      IF i <= a THEN 0 ELSE IF i = a + 1 THEN kept ELSE n[i]]
                  IN  IF up THEN AddAt(truncated, a + 1, unit) ELSE truncated

\* n / factor raises OverflowError
QuotientOverflows(n, e) ==
    LET high == HighDigits(RoundToFloat(n), e)
        full == DBL_MAX_EXP \div 10
    IN  \/ Len(high) > full + 1
        \/ Len(high) = full + 1 /\ high[Len(high)] >= 2 ^ (DBL_MAX_EXP % 10)

RECURSIVE ZeroPadded(_, _)
ZeroPadded(s, width) == IF Len(s) >= width THEN s ELSE ZeroPadded(<<"0">> \o s, width)

\* '%.*f' % (precision, n / factor): the float quotient rounded to
\* precision decimals, a tie to the even neighbour
FormatQuotient(n, e, precision) ==
    LET whole == DigitsValue(HighDigits(RoundToFloat(n), e))
        scaled == TimesSmall(LowDigits(RoundToFloat(n), e), Pow10(precision), 0)
        side == AgainstHalf(scaled.digits)
        odd == IF precision = 0 THEN whole % 2 = 1 ELSE scaled.carry % 2 = 1
        up == side = "above" \/ (side = "half" /\ odd)
        decimals == scaled.carry + (IF up THEN 1 ELSE 0)
        carried == decimals = Pow10(precision)
    IN  FormatInt(IF carried THEN whole + 1 ELSE whole)
        \o (IF precision = 0 THEN <<>>
            ELSE <<".">> \o ZeroPadded(FormatInt(IF carried THEN 0 ELSE decimals), precision))

\* humanize_bytes(n, precision): the outcome is the text it returns
humanize_bytes(n, precision) ==
    IF n = <<1>> THEN Ok(<<"1", " ", "B">>)
    ELSE LET hits == {i \in DOMAIN abbrevs : GeqFactor(n, abbrevs[i].exp)}
             \* the loop stops at the first factor n reaches and otherwise
             \* leaves the variables of its last round
             i == IF hits = {} THEN Len(abbrevs)
                  ELSE CHOOSE j \in hits : \A k \in hits : j <= k
         IN  IF QuotientOverflows(n, abbrevs[i].exp) THEN Fail("OverflowError", <<>>)
             ELSE Ok(FormatQuotient(n, abbrevs[i].exp, precision)
                     \o <<" ">> \o abbrevs[i].suffix)

VARIABLES
    pcr_in,     \* the arguments of a call of parse_content_range
    pcr_out,    \* None before the call, Some(its outcome) after it
    status,     \* the Status object
    clock,      \* what time() returns
    last,       \* the last call made by the caller and the exception it raised
    download,   \* the Download object
    file,       \* the output file on disk: its size, and whether it can be truncated
    request_headers, \* the headers passed to pre_request
    response,   \* the response the server sends, which the caller passes to start()
    stream,     \* the stream start() returned
    should_stop, \* the reporter's _should_stop event
    reporter,   \* the rest of the ProgressReporterThread
    output,     \* what was written to progress_file
    message,    \* the HTTP message an output stream is built on
    ostream,    \* the output stream and where its iteration stands
    written,    \* the chunks the output stream has yielded
    build,      \* the arguments and the results of get_stream_type and build_output_stream
    naming,     \* the argument, the file system and the result of get_unique_filename
    humanize    \* the arguments and the result of humanize_bytes

parse_vars == <<pcr_in, pcr_out>>

download_vars == <<download, file, request_headers, response, stream, should_stop,
                   reporter, output>>

\* What the caller's calls write.
caller_vars == <<status, download, file, request_headers, stream, should_stop>>

output_vars == <<message, ostream, written>>

vars == <<pcr_in, pcr_out, status, clock, last, download, file,
          request_headers, response, stream, should_stop, reporter, output,
          message, ostream, written, build, naming, humanize>>

\* A response with no body and no headers of interest.
EmptyResponse ==
    [status_code |-> 200, content_length |-> None, content_range |-> None, body_len |-> 0]

\* A Download that is constructed and not used.
DownloadIdle ==
    /\ download = Download_init("none", FALSE)
    /\ file = [size |-> 0, seekable |-> TRUE]
    /\ request_headers = RequestHeaders_init
    /\ response = EmptyResponse
    /\ stream = Stream_init
    /\ should_stop = FALSE
    /\ reporter = Reporter_init(1)
    /\ output = Output_init

\* A message with no headers and no body.
EmptyMessage ==
    [kind |-> "request", headers |-> <<>>, body |-> <<>>, encoding |-> "utf8",
     content_type |-> <<>>]

\* No output stream built.
OutputIdle ==
    /\ message = EmptyMessage
    /\ ostream = OutputStream_init
    /\ written = <<>>

\* No output requested.
BuildIdle ==
    build = [args |-> [output_options |-> {}, prettify |-> <<>>, stream |-> FALSE],
             env |-> [stdout_isatty |-> FALSE, stdout_encoding |-> "utf8"],
             Stream |-> None, output |-> None]

\* No file name asked for.
NamingIdle == naming = [filename |-> <<>>, exists |-> {}, unique |-> None]

\* Nothing to humanize.
HumanizeIdle == humanize = [n |-> <<>>, precision |-> 2, out |-> None]

ParseIdle ==
    /\ pcr_in = [content_range |-> None, resumed_from |-> 0]
    /\ pcr_out = None

CallerInit == last = [op |-> "", error |-> ""]

\* The caller makes one more call, op, which raises error ("" for none).
Called(op, error) == last' = [op |-> op, error |-> error]

\* This step is a call of op by the caller that raised something else than
\* the call before it or changed what the caller's calls write.  (A call
\* that does neither leaves the state as it is.)
IsCall(op) == last'.op = op /\ (last' # last \/ caller_vars' # caller_vars)

\* time() advances.
Tick ==
    /\ clock < MaxTime
    /\ clock' = clock + 1

(***************************************************************************)
(* parse_content_range, called once on any header and offset.               *)
(***************************************************************************)
ParseInit ==
    /\ pcr_in \in [content_range : ContentRangeValues, resumed_from : 0..(MaxPos + 1)]
    /\ pcr_out = None
    /\ status = Status_init
    /\ clock = 1
    /\ CallerInit
    /\ DownloadIdle
    /\ OutputIdle
    /\ BuildIdle
    /\ NamingIdle
    /\ HumanizeIdle

ParseCall ==
    /\ IsNone(pcr_out)
    /\ pcr_out' = Some(parse_content_range(pcr_in.content_range, pcr_in.resumed_from))
    /\ UNCHANGED <<build, naming, humanize, pcr_in, status, clock, last, download_vars, output_vars>>

ParseSpec == ParseInit /\ [][ParseCall]_vars

(***************************************************************************)
(* A Download used by a caller (pre_request, start, the stream's            *)
(* iteration, finish, failed, in any order) beside its reporter thread.     *)
(***************************************************************************)
\* The responses a server is taken to send.  A Content-Range comes with a
\* 206 only: the range of a file of up to MaxFile bytes, one that does not
\* end where the instance does, a malformed one, or none.
ResponseRanges ==
    {None, Some(BytesPrefix \o <<"1", "-", "2">>)}
    \cup {Some(Header(F, L, T, FALSE)) :
            F \in 1..MaxFile, L \in 1..MaxPos, T \in {None, Some(MaxPos), Some(MaxPos + 1)}}

ContentLengths == {None, Some(<<"x">>)} \cup {Some(FormatInt(n)) : n \in 0..MaxBody}

Responses ==
    [status_code : {200}, content_length : ContentLengths,
     content_range : {None}, body_len : 0..MaxBody]
    \cup [status_code : {PARTIAL_CONTENT}, content_length : ContentLengths,
          content_range : ResponseRanges, body_len : 0..MaxBody]

\* The Downloads a caller constructs, with the output file as it is then.
Configurations ==
    [download : {Download_init("none", resume) : resume \in BOOLEAN},
     file : {[size |-> 0, seekable |-> TRUE]}]
    \cup [download : {Download_init("given", resume) : resume \in BOOLEAN},
          file : [size : 0..MaxFile, seekable : BOOLEAN]]

\* The state after Download.__init__, for the given Downloads and responses.
InitWith(configurations, responses) ==
    /\ ParseIdle
    /\ BuildIdle
    /\ NamingIdle
    /\ HumanizeIdle
    /\ status = Status_init
    /\ clock = 1
    /\ CallerInit
    /\ \E c \in configurations : download = c.download /\ file = c.file
    /\ request_headers = RequestHeaders_init
    /\ response \in responses
    /\ stream = Stream_init
    /\ should_stop = FALSE
    /\ reporter = Reporter_init(1)
    /\ output = Output_init
    /\ OutputIdle

\* download.pre_request(request_headers)
PreRequest ==
    LET r == Download_pre_request(download, request_headers, file)
    IN  /\ Called("pre_request", r.error)
        /\ download' = r.download
        /\ request_headers' = r.headers
        /\ UNCHANGED <<message, ostream, written, build, naming, humanize, pcr_in, pcr_out, status, clock, file, response, stream,
                       should_stop, reporter, output>>

\* download.start(response): after self.status.started(...) it builds the
\* stream, writes the banner and starts the reporter thread.
Start ==
    LET r == Download_start(download, status, file, response, clock)
    IN  /\ Called("start", r.error)
        /\ download' = r.download
        /\ status' = r.status
        /\ file' = r.file
        /\ IF r.error = ""
           THEN /\ stream' = Stream_new(response)
                /\ output' = [output EXCEPT !.banner = Some(r.status.total_size)]
                /\ reporter' = [reporter EXCEPT !.pc = "while"]
           ELSE UNCHANGED <<stream, output, reporter>>
        /\ UNCHANGED <<message, ostream, written, build, naming, humanize, pcr_in, pcr_out, clock, request_headers, response, should_stop>>

\* download.finish()
Finish ==
    LET r == Download_finish(download, status, clock)
    IN  /\ Called("finish", r.error)
        /\ download' = r.download
        /\ status' = r.status
        /\ UNCHANGED <<message, ostream, written, build, naming, humanize, pcr_in, pcr_out, clock, file, request_headers, response,
                       stream, should_stop, reporter, output>>

\* download.failed()
Failed ==
    LET r == Download_failed(download, should_stop)
    IN  /\ Called("failed", "")
        /\ download' = r.download
        /\ should_stop' = r.should_stop
        /\ UNCHANGED <<message, ostream, written, build, naming, humanize, pcr_in, pcr_out, status, clock, file, request_headers,
                       response, stream, reporter, output>>

\* The consumer asks the stream for its next chunk (BaseStream.__iter__
\* resumes): the callback of the chunk yielded before runs, then the next
\* chunk of the body is yielded or the iteration ends.
StreamNext ==
    /\ stream.state = "active"
    /\ LET r == IF stream.pending > 0
                THEN Status_chunk_downloaded(status, stream.pending)
                ELSE Ok(status)
           s1 == [stream EXCEPT !.pending = 0, !.reported = @ + stream.pending]
       IN  /\ status' = r.obj
           /\ IF r.error # ""
              THEN /\ stream' = [stream EXCEPT !.state = "failed"]
                   /\ Called("next", r.error)
              ELSE IF stream.body_left = 0
              THEN /\ stream' = [s1 EXCEPT !.state = "exhausted"]
                   /\ Called("next", "StopIteration")
              ELSE \E size \in 1..stream.body_left :
                      /\ size <= DownloadChunkSize
                      /\ stream' = [s1 EXCEPT !.pending = size,
                                              !.body_left = @ - size,
                                              !.yielded = @ + size]
                      /\ Called("next", "")
    /\ UNCHANGED <<message, ostream, written, build, naming, humanize, pcr_in, pcr_out, clock, download, file, request_headers,
                   response, should_stop, reporter, output>>

\* run() whose loop does not test the event.
RunWhile_ignoresStop ==
    /\ reporter.pc = "while"
    /\ reporter' = [reporter EXCEPT !.pc = "if"]
    /\ UNCHANGED <<message, ostream, written, build, naming, humanize, pcr_in, pcr_out, status, clock, last, download, file,
                   request_headers, response, stream, should_stop, output>>

\* run(): while not self._should_stop.is_set()
RunWhile ==
    /\ reporter.pc = "while"
    /\ reporter' = [reporter EXCEPT !.pc = IF should_stop THEN "done" ELSE "if"]
    /\ UNCHANGED <<message, ostream, written, build, naming, humanize, pcr_in, pcr_out, status, clock, last, download, file,
                   request_headers, response, stream, should_stop, output>>

\* run(): if self.status.has_finished
RunIf ==
    /\ reporter.pc = "if"
    /\ reporter' = [reporter EXCEPT
                      !.pc = IF Status_has_finished(status) THEN "sum_up"
                             ELSE "report_speed"]
    /\ UNCHANGED <<message, ostream, written, build, naming, humanize, pcr_in, pcr_out, status, clock, last, download, file,
                   request_headers, response, stream, should_stop, output>>

\* run() without the break after sum_up().
RunSumUp_noBreak ==
    /\ reporter.pc = "sum_up"
    /\ output' = [output EXCEPT
                    !.rendered = None,
                    !.summaries = Append(@, ProgressReporterThread_sum_up(status))]
    /\ reporter' = [reporter EXCEPT !.pc = "while"]
    /\ UNCHANGED <<message, ostream, written, build, naming, humanize, pcr_in, pcr_out, status, clock, last, download, file,
                   request_headers, response, stream, should_stop>>

\* run(): self.sum_up(); break
RunSumUp ==
    /\ reporter.pc = "sum_up"
    /\ output' = [output EXCEPT
                    !.rendered = None,
                    !.summaries = Append(@, ProgressReporterThread_sum_up(status))]
    /\ reporter' = [reporter EXCEPT !.pc = "done"]
    /\ UNCHANGED <<message, ostream, written, build, naming, humanize, pcr_in, pcr_out, status, clock, last, download, file,
                   request_headers, response, stream, should_stop>>

\* run() whose report_speed() stores the bytes it sampled in the Status.
RunReportSpeed_writesStatus ==
    /\ reporter.pc = "report_speed"
    /\ LET r == ProgressReporterThread_report_speed(reporter, status, clock)
       IN  /\ reporter' = r.reporter
           /\ output' = [output EXCEPT !.rendered = Some(r.rendered)]
           /\ status' = [status EXCEPT !.downloaded = r.reporter.prev_bytes]
    /\ UNCHANGED <<message, ostream, written, build, naming, humanize, pcr_in, pcr_out, clock, last, download, file,
                   request_headers, response, stream, should_stop>>

\* run(): self.report_speed(); sleep(self._tick)
RunReportSpeed ==
    /\ reporter.pc = "report_speed"
    /\ LET r == ProgressReporterThread_report_speed(reporter, status, clock)
       IN  /\ reporter' = r.reporter
           /\ output' = [output EXCEPT !.rendered = Some(r.rendered)]
    /\ UNCHANGED <<message, ostream, written, build, naming, humanize, pcr_in, pcr_out, status, clock, last, download, file,
                   request_headers, response, stream, should_stop>>

ReporterStep == RunWhile \/ RunIf \/ RunSumUp \/ RunReportSpeed

ClockTick ==
    /\ Tick
    /\ UNCHANGED <<message, ostream, written, build, naming, humanize, pcr_in, pcr_out, status, last, download_vars>>

(***************************************************************************)
(* The caller's calls alone, on every Download and response.  The steps of  *)
(* the reporter thread are left out: they write none of caller_vars.        *)
(***************************************************************************)
CallerInitAll == InitWith(Configurations, Responses)

CallerNext == PreRequest \/ Start \/ Finish \/ Failed \/ StreamNext

CallerSpec == CallerInitAll /\ [][CallerNext]_vars

(***************************************************************************)
(* The caller, the reporter thread and the clock together.                  *)
(***************************************************************************)
\* Resumed and fresh downloads of a one-byte partial file ...
ThreadConfigurations ==
    [download : {Download_init("given", resume) : resume \in BOOLEAN},
     file : {[size |-> 1, seekable |-> TRUE]}]

\* ... against a server that sends the rest of a two-byte or a three-byte
\* instance, or all of a two-byte one, or one byte with a Content-Length of
\* 0 or with none.
ThreadResponses ==
    { [status_code |-> PARTIAL_CONTENT, content_length |-> Some(FormatInt(n - 1)),
       content_range |-> Some(RangeHeader(1, n - 1, n)), body_len |-> n - 1] : n \in {2, 3} }
    \cup { [status_code |-> 200, content_length |-> Some(FormatInt(2)),
            content_range |-> None, body_len |-> 2] }
    \cup { [status_code |-> 200, content_length |-> length,
            content_range |-> None, body_len |-> 1] : length \in {None, Some(FormatInt(0))} }

Init == InitWith(ThreadConfigurations, ThreadResponses)

Next ==
    \/ PreRequest
    \/ Start
    \/ Finish
    \/ Failed
    \/ StreamNext
    \/ RunWhile
    \/ RunIf
    \/ RunSumUp
    \/ RunReportSpeed
    \/ ClockTick

Spec == Init /\ [][Next]_vars

\* The reporter thread is scheduled: a step it can take is eventually taken.
FairSpec == Spec /\ WF_vars(ReporterStep)

\* The header is 'bytes F-L/T' or 'bytes F-L/*' and is the range asked for:
\* F <= L, L < T and L + 1 = T when T is given, and F is the resume offset.
C1_Accepted(content_range, resumed_from, F, L, T) ==
    /\ \E pad \in BOOLEAN : content_range = Some(Header(F, L, T, pad))
    /\ F <= L
    /\ (IsNone(T) \/ L < Val(T))
    /\ F = resumed_from
    /\ (IsNone(T) \/ L + 1 = Val(T))

\* C1: parse_content_range returns L + 1 for every header 'bytes F-L/T' or
\* 'bytes F-L/*' with F <= L, L < T, F the resume offset and L + 1 = T
\* (single-byte ranges, F = L, included), and raises for every other input.
C1_ParseContract ==
    ~IsNone(pcr_out) =>
        LET out == Val(pcr_out)
            cr == pcr_in.content_range
            rf == pcr_in.resumed_from
        IN  /\ \A F \in Positions, L \in Positions, T \in Lengths :
                C1_Accepted(cr, rf, F, L, T) => out = Return(L + 1)
            /\ (~\E F \in Positions, L \in Positions, T \in Lengths :
                    C1_Accepted(cr, rf, F, L, T)) => out.raised

(***************************************************************************)
(* A Status object used on its own, its methods called in any order.        *)
(***************************************************************************)
(***************************************************************************)
(* Resumed downloads watched for one more second, so that the reporter can  *)
(* take two speed samples after start().                                     *)
(***************************************************************************)
\* A Download that resumes a file of one or two bytes ...
SampleConfigurations ==
    [download : {Download_init("given", TRUE)},
     file : [size : 1..MaxFile, seekable : {TRUE}]]

\* ... against a server that sends the last two bytes of an instance.
SampleResponses ==
    { [status_code |-> PARTIAL_CONTENT, content_length |-> Some(FormatInt(2)),
       content_range |-> Some(RangeHeader(n, n + 1, n + 2)), body_len |-> 2] : n \in 1..MaxFile }

SampleInit == InitWith(SampleConfigurations, SampleResponses)

\* time() advances once more.
LateClockTick ==
    /\ clock = MaxTime
    /\ clock' = clock + 1
    /\ UNCHANGED <<message, ostream, written, build, naming, humanize, pcr_in, pcr_out, status, last, download_vars>>

SampleNext == Next \/ LateClockTick

SampleSpec == SampleInit /\ [][SampleNext]_vars

StatusInit ==
    /\ ParseIdle
    /\ BuildIdle
    /\ NamingIdle
    /\ HumanizeIdle
    /\ status = Status_init
    /\ clock = 1
    /\ CallerInit
    /\ DownloadIdle
    /\ OutputIdle

StatusStarted ==
    \E resumed_from \in 0..MaxFile, total_size \in {None} \cup {Some(n) : n \in 0..MaxBody} :
        LET r == Status_started(status, resumed_from, total_size, clock)
        IN  /\ Called("started", r.error)
            /\ status' = r.obj
            /\ UNCHANGED <<message, ostream, written, build, naming, humanize, pcr_in, pcr_out, clock, download_vars>>

StatusChunkDownloaded ==
    \E size \in 0..MaxBody :
        LET r == Status_chunk_downloaded(status, size)
        IN  /\ status.downloaded + size <= MaxFile + MaxBody
            /\ Called("chunk_downloaded", r.error)
            /\ status' = r.obj
            /\ UNCHANGED <<message, ostream, written, build, naming, humanize, pcr_in, pcr_out, clock, download_vars>>

StatusFinished ==
    LET r == Status_finished(status, clock)
    IN  /\ Called("finished", r.error)
        /\ status' = r.obj
        /\ UNCHANGED <<message, ostream, written, build, naming, humanize, pcr_in, pcr_out, clock, download_vars>>

StatusTick == Tick /\ UNCHANGED <<message, ostream, written, build, naming, humanize, pcr_in, pcr_out, status, last, download_vars>>

StatusNext == StatusStarted \/ StatusChunkDownloaded \/ StatusFinished \/ StatusTick

StatusSpec == StatusInit /\ [][StatusNext]_vars

\* C3: the finish timestamp of a Status, once set, never changes; it is set
\* only by a step that finds the start timestamp set; and a finished() call
\* made before started() or after an earlier finished() raises and leaves the
\* finish timestamp as it was.
C3_FinishOnceAfterStart ==
    [][ /\ (~IsNone(status.time_finished)
                => status'.time_finished = status.time_finished)
        /\ (status'.time_finished # status.time_finished
                => ~IsNone(status.time_started))
        /\ ((/\ IsCall("finished")
             /\ (IsNone(status.time_started) \/ ~IsNone(status.time_finished)))
                => (/\ last'.error = "AssertionError"
                    /\ status'.time_finished = status.time_finished)) ]_vars

\* A second finished() has failed on a Status that had finished.
C3_Witness ==
    /\ last.op = "finished"
    /\ last.error = "AssertionError"
    /\ ~IsNone(status.time_started)
    /\ ~IsNone(status.time_finished)

\* C4 as stated: in any call order, downloaded never decreases while the
\* finish timestamp is unset.
C4_MonotoneUntilFinish ==
    [][IsNone(status.time_finished) => status'.downloaded >= status.downloaded]_vars

\* C4 as amended: once the start timestamp is set, downloaded never decreases.
C4_MonotoneOnceStarted ==
    [][~IsNone(status.time_started) => status'.downloaded >= status.downloaded]_vars

\* A started Status has counted a chunk.
C4_Witness ==
    /\ ~IsNone(status.time_started)
    /\ IsNone(status.time_finished)
    /\ last.op = "chunk_downloaded"
    /\ last.error = ""
    /\ status.downloaded > status.resumed_from

(***************************************************************************)
(* Claims about the Download and its reporter thread                        *)
(***************************************************************************)
\* The Download finished normally: finish() was accepted by the Status and
\* the stream was iterated until it raised StopIteration.
Completed ==
    /\ download.finished
    /\ ~IsNone(status.time_finished)
    /\ stream.state = "exhausted"

\* C2: in every interleaving of the caller's calls with the reporter's
\* steps, the reporter writes at most one summary, returns from run() only
\* after writing it unless it was told to stop, and, once finish() was
\* accepted on a started download, eventually has written the summary and
\* returned (unless failed() stops it first).
C2_SummaryExactlyOnce ==
    /\ [](Len(output.summaries) <= 1)
    /\ []((reporter.pc = "done" /\ ~should_stop) => Len(output.summaries) = 1)
    /\ ((~IsNone(status.time_finished) /\ ~should_stop)
          ~> (should_stop \/ (reporter.pc = "done" /\ Len(output.summaries) = 1)))

\* The reporter returned after one summary of a download whose chunks were
\* reported while it ran.
C2_Witness ==
    /\ reporter.pc = "done"
    /\ ~should_stop
    /\ Len(output.summaries) = 1
    /\ stream.reported > 0
    /\ reporter.spinner_pos > 0

\* C5: a resumed download of a partial file of k > 0 bytes, answered by 206
\* with 'bytes k-(n-1)/n' and a body of n - k bytes: start() accepts the
\* header, and once the stream is exhausted and finish() returned,
\* downloaded is n, resumed_from is k, interrupted is false and the
\* summary reports n - k bytes.
C5_ResumedDownload ==
    \A k \in 1..MaxFile, n \in 2..(MaxPos + 1) :
        (/\ k < n
         /\ download.resume
         /\ download.resumed_from = k
         /\ request_headers.range = Some(RangeRequest(k))
         /\ response.status_code = PARTIAL_CONTENT
         /\ response.content_range = Some(RangeHeader(k, n - 1, n))
         /\ response.body_len = n - k)
        => /\ ~(last.op = "start" /\ last.error = "ContentRangeError")
           /\ Completed
                => /\ status.downloaded = n
                   /\ status.resumed_from = k
                   /\ ~Download_interrupted(download, status)
                   /\ \A i \in 1..Len(output.summaries) :
                         output.summaries[i].downloaded = n - k

\* C6: a download with resume disabled, answered with Content-Length N and
\* a body of N bytes: once the stream is exhausted and finish() returned,
\* downloaded and total_size are both N and interrupted is false.
C6_FreshDownload ==
    \A N \in 0..MaxBody :
        (/\ ~download.resume
         /\ response.content_length = Some(FormatInt(N))
         /\ response.body_len = N
         /\ Completed)
        => /\ status.downloaded = N
           /\ status.total_size = Some(N)
           /\ ~Download_interrupted(download, status)

\* A fresh download of MaxBody bytes, delivered in more than one chunk, has
\* completed.
C6_Witness ==
    /\ ~download.resume
    /\ response.content_length = Some(FormatInt(MaxBody))
    /\ response.body_len = MaxBody
    /\ Completed
    /\ last.op = "finish"
    /\ stream.reported = MaxBody

\* C7: interrupted is true exactly when finish() has been called, the total
\* size is known (0 included) and downloaded differs from it.
C7_InterruptedExactly ==
    Download_interrupted(download, status)
        <=> (/\ download.finished
             /\ ~IsNone(status.total_size)
             /\ Val(status.total_size) # status.downloaded)

\* C8: a finish() call on a Download that is finished already, or whose
\* Status has not started, raises AssertionError and leaves the finish time
\* as it was; any other finish() call returns, and a finish() call that
\* returns marks the Download finished and sets the finish time, which was
\* not set before; once set, the finish time never changes.
C8_FinishOnce ==
    [][/\ IsCall("finish") =>
            /\ (download.finished \/ IsNone(status.time_started))
                 => (/\ last'.error = "AssertionError"
                     /\ status'.time_finished = status.time_finished)
            /\ (~download.finished /\ ~IsNone(status.time_started))
                 => last'.error = ""
            /\ (last'.error = "")
                 => (/\ download'.finished
                     /\ IsNone(status.time_finished)
                     /\ status'.time_finished = Some(clock))
       /\ (~IsNone(status.time_finished))
            => status'.time_finished = status.time_finished]_vars

\* finish() returned on a started download.
C8_Witness ==
    /\ last = [op |-> "finish", error |-> ""]
    /\ download.finished
    /\ ~IsNone(status.time_started)
    /\ ~IsNone(status.time_finished)

\* C9: a failed() call returns, sets the reporter's stop flag and changes
\* nothing else: not the Download, the Status, the output file, the request
\* headers, the stream, the rest of the reporter or what was written.
C9_FailedOnlyStops ==
    [][IsCall("failed") =>
          /\ last'.error = ""
          /\ should_stop'
          /\ UNCHANGED <<status, download, file, request_headers, response,
                         stream, reporter, output, clock>>]_vars

\* failed() was called on a started, unfinished download.
C9_Witness ==
    /\ last.op = "failed"
    /\ should_stop
    /\ ~IsNone(status.time_started)
    /\ ~download.finished

\* C10: once failed() has set the stop flag of a reporter thread that was
\* started, run() eventually returns, and while the download is unfinished
\* no summary is written.
C10_FailedReporterExits ==
    /\ [](IsNone(status.time_finished) => output.summaries = <<>>)
    /\ ((should_stop /\ reporter.pc # "new") ~> reporter.pc = "done")

\* The reporter of a started, unfinished download returned after failed(),
\* having rendered progress and written no summary.
C10_Witness ==
    /\ should_stop
    /\ reporter.pc = "done"
    /\ ~IsNone(status.time_started)
    /\ IsNone(status.time_finished)
    /\ ~IsNone(output.rendered)
    /\ output.summaries = <<>>

\* C11: the Status has a single writer.  A step that changes any field of
\* the Status is a start(), a chunk callback run by the stream's iteration,
\* or a finish() of the caller; a step of the reporter thread (one that
\* moves the reporter or writes output and is no call of the caller) leaves
\* every field of the Status as it was.
C11_StatusSingleWriter ==
    [][/\ (status' # status)
            => (IsCall("start") \/ IsCall("next") \/ IsCall("finish"))
       /\ (last' = last /\ (reporter' # reporter \/ output' # output))
            => status' = status]_vars

\* The reporter has rendered progress and written the summary of a Status
\* the caller wrote chunks to.
C11_Witness ==
    /\ Len(output.summaries) = 1
    /\ reporter.spinner_pos > 0
    /\ status.downloaded > status.resumed_from
    /\ ~IsNone(status.time_finished)

\* C12: once the finish timestamp of a Status is set, every started(),
\* chunk_downloaded() or finished() call raises AssertionError, and no step
\* changes downloaded, total_size, resumed_from or either timestamp.
C12_TerminalOnceFinished ==
    [][(~IsNone(status.time_finished))
          => /\ status' = status
             /\ (IsCall("started") \/ IsCall("chunk_downloaded") \/ IsCall("finished"))
                  => last'.error = "AssertionError"]_vars

\* A chunk_downloaded() call has failed on a finished Status.
C12_Witness ==
    /\ last = [op |-> "chunk_downloaded", error |-> "AssertionError"]
    /\ ~IsNone(status.time_finished)
    /\ status.downloaded > 0

(***************************************************************************)
(* Claims about the errors of parse_content_range                           *)
(***************************************************************************)
\* s is one or more decimal digits.
AllDigits(s) == Len(s) >= 1 /\ \A i \in 1..Len(s) : IsDigit(s[i])

\* s is exactly 'bytes <digits>-<digits>/<digits or *>'.
ExactContentRange(s) ==
    \E i \in 1..Len(s), j \in 1..Len(s) :
        /\ Len(BytesPrefix) < i /\ i < j
        /\ SubSeq(s, 1, Len(BytesPrefix)) = BytesPrefix
        /\ AllDigits(SubSeq(s, Len(BytesPrefix) + 1, i - 1))
        /\ s[i] = "-"
        /\ AllDigits(SubSeq(s, i + 1, j - 1))
        /\ s[j] = "/"
        /\ LET rest == SubSeq(s, j + 1, Len(s))
           IN  rest = <<"*">> \/ AllDigits(rest)

\* C13: for a header 'bytes F-L/T' or 'bytes F-L/*', parse_content_range
\* raises 'Invalid Content-Range returned' exactly when F > L, or T is
\* given and L >= T.
C13_InvalidRangeExactly ==
    ~IsNone(pcr_out) =>
        \A F \in Positions, L \in Positions, T \in Lengths, pad \in BOOLEAN :
            pcr_in.content_range = Some(Header(F, L, T, pad))
            => ((Val(pcr_out) = Raise("Invalid Content-Range returned"))
                    <=> (F > L \/ (~IsNone(T) /\ L >= Val(T))))

\* C14: for a header 'bytes F-L/T' or 'bytes F-L/*' that is a valid range
\* (F <= L, and L < T when T is given), parse_content_range raises
\* 'Unexpected Content-Range returned' exactly when F is not the resume
\* offset, or T is given and L + 1 is not T; for one that is not a valid
\* range it raises 'Invalid Content-Range returned' whatever the offset.
C14_UnexpectedRangeExactly ==
    ~IsNone(pcr_out) =>
        \A F \in Positions, L \in Positions, T \in Lengths, pad \in BOOLEAN :
            pcr_in.content_range = Some(Header(F, L, T, pad))
            => IF F > L \/ (~IsNone(T) /\ L >= Val(T))
               THEN Val(pcr_out) = Raise("Invalid Content-Range returned")
               ELSE (Val(pcr_out) = Raise("Unexpected Content-Range returned"))
                        <=> (\/ F # pcr_in.resumed_from
                             \/ (~IsNone(T) /\ L + 1 # Val(T)))

C16_PreRequest ==
    [][IsCall("pre_request") =>
          /\ request_headers'.accept_encoding = "None"
          /\ IF download.resume /\ download.output_file # "none" /\ file.size > 0
             THEN /\ last'.error = ""
                  /\ request_headers'.range = Some(RangeRequest(file.size))
                  /\ download'.resumed_from = file.size
             ELSE /\ request_headers'.range = request_headers.range
                  /\ download'.resumed_from = 0]_vars

\* pre_request has asked for the rest of a partial file of MaxFile bytes.
C16_Witness ==
    /\ last = [op |-> "pre_request", error |-> ""]
    /\ request_headers.accept_encoding = "None"
    /\ request_headers.range = Some(RangeRequest(MaxFile))
    /\ download.resumed_from = MaxFile
    /\ IsNone(status.time_started)

\* C17: a start() call on a Download with an output file given, whose
\* Status has not started, for a response that is not a 206 answering a
\* resume, returns; after it the resume offset is 0 (also when pre_request
\* had sent a Range), the Status has started with downloaded and
\* resumed_from 0, and the file is empty, or, when seek/truncate raise
\* IOError (a file that is not seekable), as it was.
C17_FreshStart ==
    [][(/\ IsCall("start")
        /\ IsNone(status.time_started)
        /\ download.output_file = "given"
        /\ ~(download.resume /\ response.status_code = PARTIAL_CONTENT))
       => /\ last'.error = ""
          /\ download'.resumed_from = 0
          /\ ~IsNone(status'.time_started)
          /\ status'.downloaded = 0
          /\ status'.resumed_from = 0
          /\ file' = IF file.seekable THEN [file EXCEPT !.size = 0] ELSE file]_vars

\* start() has returned on a fresh download after pre_request had sent a
\* Range, with the partial file truncated.
C17_Witness ==
    /\ last = [op |-> "start", error |-> ""]
    /\ download.output_file = "given"
    /\ download.resume
    /\ response.status_code = 200
    /\ ~IsNone(request_headers.range)
    /\ download.resumed_from = 0
    /\ file = [size |-> 0, seekable |-> TRUE]

\* C18: a start() call that returns on a Download resuming into a given
\* output file, for a 206 with 'bytes F-L/T' or 'bytes F-L/*', records
\* L + 1 as the total size, whatever Content-Length says; a start() call on
\* a Status not started, for any other Download or status code, with
\* Content-Length absent or not a number, returns and records no total
\* size.
C18_TotalSize ==
    [][(IsCall("start") /\ IsNone(status.time_started)) =>
          IF /\ download.output_file # "none"
             /\ download.resume
             /\ response.status_code = PARTIAL_CONTENT
          THEN (last'.error = "") =>
                  \E F \in Positions, L \in Positions, T \in Lengths :
                      /\ response.content_range = Some(Header(F, L, T, FALSE))
                      /\ status'.total_size = Some(L + 1)
          ELSE (\/ IsNone(response.content_length)
                \/ ~AllDigits(Val(response.content_length)))
                  => /\ last'.error = ""
                     /\ ~IsNone(status'.time_started)
                     /\ IsNone(status'.total_size)]_vars

\* start() has recorded the total size of the Content-Range, 3, beside a
\* Content-Length of 1.
C18_Witness ==
    /\ last = [op |-> "start", error |-> ""]
    /\ download.resume
    /\ response.status_code = PARTIAL_CONTENT
    /\ response.content_range = Some(RangeHeader(1, 2, 3))
    /\ response.content_length = Some(FormatInt(1))
    /\ status.total_size = Some(3)

(***************************************************************************)
(* An output stream built on a message and iterated to its end.             *)
(***************************************************************************)
BodyBytes == {"1", "\n", "NUL", "E9"}

Bodies == UNION {[1..n -> BodyBytes] : n \in 0..MaxBytes}

\* Header blocks: three lines joined by '\r\n', or one line that is not ASCII
HeaderBlocks == {<<"H", "\r", "\n", "b", "\r", "\n", "a">>, <<"H", "é">>}

JsonType == <<"application", "/", "json">>
XmlType == <<"application", "/", "xml">>
MsgpackType == <<"application", "/", "msgpack">>

\* A response in either encoding, or a request, whose encoding is always
\* 'utf8' and whose Content-Type header may be missing.
Messages ==
    [kind : {"response"}, headers : HeaderBlocks, body : Bodies,
     encoding : {"utf8", "latin1"},
     content_type : {JsonType, XmlType, MsgpackType \o <<";", "charset=utf8">>}]
    \cup
    [kind : {"request"}, headers : HeaderBlocks, body : Bodies,
     encoding : {"utf8"}, content_type : {<<>>, JsonType}]

\* The converter classes the plugin manager may hold: none, one that turns
\* msgpack into JSON text, or one whose convert raises.
Conversions ==
    {<<>>,
     <<[supports |-> {MsgpackType}, mime |-> JsonType, raises |-> FALSE]>>,
     <<[supports |-> {MsgpackType}, mime |-> JsonType, raises |-> TRUE]>>}

\* args.prettify: the formatter groups asked for
PrettifyGroups == {<<"format">>, <<"colors">>}

\* Environment: stdout_encoding is never None after Environment.__init__.
Environments == [stdout_isatty : BOOLEAN, stdout_encoding : {"utf8", "ascii"}]

OutputInit ==
    /\ ParseIdle
    /\ BuildIdle
    /\ NamingIdle
    /\ HumanizeIdle
    /\ status = Status_init
    /\ clock = 1
    /\ CallerInit
    /\ DownloadIdle
    /\ message \in Messages
    /\ ostream = OutputStream_init
    /\ written = <<>>

\* RawStream(msg=message, chunk_size=..., with_headers=..., with_body=...)
BuildRawStream ==
    /\ ostream.pc = "none"
    /\ \E chunk_size \in {RawStream_CHUNK_SIZE, RawStream_CHUNK_SIZE_BY_LINE},
          with_headers \in BOOLEAN, with_body \in BOOLEAN :
          LET r == RawStream_init(chunk_size, with_headers, with_body)
          IN  /\ ostream' = r.obj
              /\ Called("RawStream", r.error)
    /\ UNCHANGED <<build, naming, humanize, pcr_in, pcr_out, status, clock, download_vars, message, written>>

\* EncodedStream(msg=message, env=..., with_headers=..., with_body=...)
BuildEncodedStream ==
    /\ ostream.pc = "none"
    /\ \E env \in Environments, with_headers \in BOOLEAN, with_body \in BOOLEAN :
          LET r == EncodedStream_init(env, message, with_headers, with_body)
          IN  /\ ostream' = r.obj
              /\ Called("EncodedStream", r.error)
    /\ UNCHANGED <<build, naming, humanize, pcr_in, pcr_out, status, clock, download_vars, message, written>>

\* PrettyStream(msg=message, env=..., conversion=..., formatting=..., ...)
BuildPrettyStream ==
    /\ ostream.pc = "none"
    /\ \E env \in Environments, conversion \in Conversions, groups \in PrettifyGroups,
          with_headers \in BOOLEAN, with_body \in BOOLEAN :
          LET r == PrettyStream_init("PrettyStream", env, message, conversion,
                                     Formatting_init(groups), with_headers, with_body)
          IN  /\ ostream' = r.obj
              /\ Called("PrettyStream", r.error)
    /\ UNCHANGED <<build, naming, humanize, pcr_in, pcr_out, status, clock, download_vars, message, written>>

\* BufferedPrettyStream(msg=message, env=..., conversion=..., formatting=..., ...)
BuildBufferedPrettyStream ==
    /\ ostream.pc = "none"
    /\ \E env \in Environments, conversion \in Conversions, groups \in PrettifyGroups,
          with_headers \in BOOLEAN, with_body \in BOOLEAN :
          LET r == PrettyStream_init("BufferedPrettyStream", env, message, conversion,
                                     Formatting_init(groups), with_headers, with_body)
          IN  /\ ostream' = r.obj
              /\ Called("BufferedPrettyStream", r.error)
    /\ UNCHANGED <<build, naming, humanize, pcr_in, pcr_out, status, clock, download_vars, message, written>>

\* The stream classes that override get_headers and process the body
PrettyClasses == {"PrettyStream", "BufferedPrettyStream"}

\* __iter__ resumes at 'yield self.get_headers()'
IterHeaders ==
    /\ ostream.pc = "headers"
    /\ LET r == IF ostream.cls \in PrettyClasses
                THEN PrettyStream_get_headers(ostream, message)
                ELSE [error |-> "", bytes |-> BaseStream_get_headers(message)]
       IN  IF r.error # ""
           THEN /\ written' = written
                /\ ostream' = [ostream EXCEPT !.pc = "failed"]
                /\ Called("next", r.error)
           ELSE /\ written' = Append(written, r.bytes)
                /\ ostream' = [ostream EXCEPT !.pc = "separator"]
                /\ Called("next", "")
    /\ UNCHANGED <<build, naming, humanize, pcr_in, pcr_out, status, clock, download_vars, message>>

\* __iter__ resumes at 'yield b'\r\n\r\n''
IterSeparator ==
    /\ ostream.pc = "separator"
    /\ written' = Append(written, <<"\r", "\n", "\r", "\n">>)
    /\ ostream' = [ostream EXCEPT !.pc = IF ostream.with_body THEN "body" ELSE "end"]
    /\ Called("next", "")
    /\ UNCHANGED <<build, naming, humanize, pcr_in, pcr_out, status, clock, download_vars, message>>

\* __iter__ whose body loop has no 'except BinarySuppressedError'.
IterBody_noCatch ==
    /\ ostream.pc = "body"
    /\ \E size \in 1..MaxBytes :
          /\ size = 1 \/ (/\ ostream.cls = "RawStream"
                          /\ message.kind = "response"
                          /\ size <= ostream.chunk_size
                          /\ ostream.pos + size <= Len(message.body))
          /\ LET r == iter_body(ostream, message, size)
                 st == [ostream EXCEPT
                          !.pos = r.pos,
                          !.mime = IF ostream.cls \in PrettyClasses THEN r.mime ELSE @]
             IN  CASE r.kind = "yield" ->
                        /\ written' = Append(written, r.chunk)
                        /\ ostream' = [st EXCEPT !.chunks = @ + 1]
                        /\ Called("next", "")
                   [] r.kind = "stop" ->
                        /\ written' = written
                        /\ ostream' = [st EXCEPT !.pc = "done"]
                        /\ Called("next", r.error)
                   [] OTHER ->
                        /\ written' = written
                        /\ ostream' = [st EXCEPT !.pc = "failed"]
                        /\ Called("next", r.error)
    /\ UNCHANGED <<build, naming, humanize, pcr_in, pcr_out, status, clock, download_vars, message>>

\* __iter__ resumes in 'for chunk in self.iter_body()', or enters it
IterBody ==
    /\ ostream.pc = "body"
    /\ \E size \in 1..MaxBytes :
          /\ size = 1 \/ (/\ ostream.cls = "RawStream"
                          /\ message.kind = "response"
                          /\ size <= ostream.chunk_size
                          /\ ostream.pos + size <= Len(message.body))
          /\ LET r == iter_body(ostream, message, size)
                 st == [ostream EXCEPT
                          !.pos = r.pos,
                          !.mime = IF ostream.cls \in PrettyClasses THEN r.mime ELSE @]
             IN  CASE r.kind = "yield" ->
                        /\ written' = Append(written, r.chunk)
                        /\ ostream' = [st EXCEPT !.chunks = @ + 1]
                        /\ Called("next", "")
                   [] r.kind = "stop" ->
                        /\ written' = written
                        /\ ostream' = [st EXCEPT !.pc = "done"]
                        /\ Called("next", r.error)
                   [] r.kind = "suppressed" ->
                        /\ written' = Append(written,
                                             IF ostream.with_headers THEN <<"\n">>
                                             ELSE BINARY_SUPPRESSED_NOTICE)
                        /\ ostream' = [st EXCEPT !.pc = IF ostream.with_headers
                                                        THEN "notice" ELSE "end"]
                        /\ Called("next", "")
                   [] OTHER ->
                        /\ written' = written
                        /\ ostream' = [st EXCEPT !.pc = "failed"]
                        /\ Called("next", r.error)
    /\ UNCHANGED <<build, naming, humanize, pcr_in, pcr_out, status, clock, download_vars, message>>

\* __iter__ that goes back to the body loop after the notice.
IterNotice_resumesBody ==
    /\ ostream.pc = "notice"
    /\ written' = Append(written, BINARY_SUPPRESSED_NOTICE)
    /\ ostream' = [ostream EXCEPT !.pc = "body"]
    /\ Called("next", "")
    /\ UNCHANGED <<build, naming, humanize, pcr_in, pcr_out, status, clock, download_vars, message>>

\* __iter__ resumes at 'yield e.message', after the '\n'
IterNotice ==
    /\ ostream.pc = "notice"
    /\ written' = Append(written, BINARY_SUPPRESSED_NOTICE)
    /\ ostream' = [ostream EXCEPT !.pc = "end"]
    /\ Called("next", "")
    /\ UNCHANGED <<build, naming, humanize, pcr_in, pcr_out, status, clock, download_vars, message>>

\* __iter__ resumes after its last yield and returns
IterEnd ==
    /\ ostream.pc = "end"
    /\ ostream' = [ostream EXCEPT !.pc = "done"]
    /\ Called("next", "StopIteration")
    /\ UNCHANGED <<build, naming, humanize, pcr_in, pcr_out, status, clock, download_vars, message, written>>

OutputNext ==
    \/ BuildRawStream
    \/ BuildEncodedStream
    \/ BuildPrettyStream
    \/ BuildBufferedPrettyStream
    \/ IterHeaders
    \/ IterSeparator
    \/ IterBody
    \/ IterNotice
    \/ IterEnd

OutputSpec == OutputInit /\ [][OutputNext]_vars

(***************************************************************************)
(* The choice of the stream class and the assembly of the output            *)
(***************************************************************************)
OutputOptions == {"OUT_REQ_HEAD", "OUT_REQ_BODY", "OUT_RESP_HEAD", "OUT_RESP_BODY"}

Arguments ==
    [output_options : SUBSET OutputOptions,
     prettify : {<<>>, <<"format">>, <<"colors">>},
     stream : BOOLEAN]

BuildInit ==
    /\ ParseIdle
    /\ status = Status_init
    /\ clock = 1
    /\ CallerInit
    /\ DownloadIdle
    /\ OutputIdle
    /\ NamingIdle
    /\ HumanizeIdle
    /\ build \in [args : Arguments, env : Environments, Stream : {None},
                  output : {None}]

\* get_stream_type(env, args)
GetStreamType ==
    /\ IsNone(build.Stream)
    /\ build' = [build EXCEPT !.Stream = Some(get_stream_type(build.env, build.args))]
    /\ UNCHANGED <<naming, humanize, pcr_in, pcr_out, status, clock, last, download_vars,
                   output_vars>>

\* build_output_stream(args, env, request, response)
BuildOutputStream ==
    /\ IsNone(build.output)
    /\ build' = [build EXCEPT
                   !.output = Some(build_output_stream(build.args, build.env))]
    /\ UNCHANGED <<naming, humanize, pcr_in, pcr_out, status, clock, last, download_vars,
                   output_vars>>

BuildNext == GetStreamType \/ BuildOutputStream

BuildSpec == BuildInit /\ [][BuildNext]_vars

(***************************************************************************)
(* The choice of the name of the output file                                *)
(***************************************************************************)
MaxAttempt == 3

\* The name with the suffix of an attempt
Suffixed(filename, attempt) == filename \o <<"-">> \o FormatInt(attempt)

\* The names a file system may hold: the name asked for and the name with
\* each of the first suffixes, for a name that has itself the form of a
\* suffixed one or not.
FileNames ==
    {<<"f">>} \cup {Suffixed(<<"f">>, k) : k \in 1..MaxAttempt}
    \cup {Suffixed(Suffixed(<<"f">>, 1), k) : k \in 1..MaxAttempt}

NamingInit ==
    /\ ParseIdle
    /\ status = Status_init
    /\ clock = 1
    /\ CallerInit
    /\ DownloadIdle
    /\ OutputIdle
    /\ BuildIdle
    /\ HumanizeIdle
    /\ naming \in [filename : {<<"f">>, Suffixed(<<"f">>, 1)},
                   exists : SUBSET FileNames, unique : {None}]

\* get_unique_filename(filename), os.path.exists answering from the files
\* that exist
GetUniqueFilename ==
    /\ IsNone(naming.unique)
    /\ naming' = [naming EXCEPT
                    !.unique = Some(get_unique_filename(naming.filename, naming.exists))]
    /\ UNCHANGED <<build, humanize, pcr_in, pcr_out, status, clock, last, download_vars,
                   output_vars>>

NamingSpec == NamingInit /\ [][GetUniqueFilename]_vars

(***************************************************************************)
(* humanize_bytes, called on byte counts and precisions                    *)
(***************************************************************************)

\* The base 1024 digits a byte count is built from: 128 / 1024 is 0.125, a
\* tie at two decimals, and 1023 rounds up into the next whole number.
ByteDigits == {0, 1, 128, 1023}

\* The byte counts below 1024 ^ MaxDigits.
ByteCounts ==
    {<<>>} \cup UNION {{n \in [1..len -> ByteDigits] : n[len] # 0} : len \in 1..MaxDigits}

\* Byte counts whose quotient by the largest factor is 2 ** 1024 or more:
\* what int() makes of a Content-Length header of 325 digits or more.
HugeByteCounts ==
    {[i \in 1..len |-> IF i = len THEN top ELSE 0] :
        len \in {Len(abbrevs) + DBL_MAX_EXP \div 10 + 1}, top \in ByteDigits \ {0, 1}}

HumanizeInit ==
    /\ ParseIdle
    /\ status = Status_init
    /\ clock = 1
    /\ CallerInit
    /\ DownloadIdle
    /\ OutputIdle
    /\ BuildIdle
    /\ NamingIdle
    /\ humanize \in [n : ByteCounts \cup HugeByteCounts, precision : 0..MaxPrecision,
                     out : {None}]

\* humanize_bytes(n, precision)
HumanizeBytes ==
    /\ IsNone(humanize.out)
    /\ humanize' = [humanize EXCEPT !.out = Some(humanize_bytes(humanize.n, humanize.precision))]
    /\ UNCHANGED <<build, naming, pcr_in, pcr_out, status, clock, last, download_vars,
                   output_vars>>

HumanizeSpec == HumanizeInit /\ [][HumanizeBytes]_vars

(***************************************************************************)
(* Claims about the output streams                                          *)
(***************************************************************************)
\* The chunks yielded after the headers and the separator.
BodyPortion ==
    IF ostream.with_headers THEN SubSeq(written, 3, Len(written)) ELSE written

\* C19: a RawStream never yields the binary-suppressed notice, and when its
\* iteration has ended with headers and body both enabled, the chunks it
\* yielded, joined, are the UTF-8 headers, '\r\n\r\n' and the body, byte
\* for byte, NUL bytes included.
C19_RawStreamVerbatim ==
    ostream.cls = "RawStream" =>
        /\ \A i \in 1..Len(written) : written[i] # BINARY_SUPPRESSED_NOTICE
        /\ (ostream.pc = "done" /\ ostream.with_headers /\ ostream.with_body)
             => Concat(written) = Encode(message.headers, "utf8")
                                  \o <<"\r", "\n", "\r", "\n">> \o message.body

\* A RawStream has yielded, byte by byte, a response body of MaxBytes bytes
\* that holds a NUL byte, after non-ASCII headers.
C19_Witness ==
    /\ ostream.cls = "RawStream"
    /\ ostream.pc = "done"
    /\ ostream.with_headers
    /\ message.kind = "response"
    /\ message.headers = <<"H", "é">>
    /\ HasNul(message.body)
    /\ Len(written) = 2 + MaxBytes

HeadersChunk ==
    IF ostream.cls \in PrettyClasses
    THEN Encode(Formatting_format_headers(ostream.formatting, message.headers),
                ostream.output_encoding)
    ELSE Encode(message.headers, "utf8")

\* C27: a stream is only ever built with headers or body enabled (the
\* constructor fails with AssertionError otherwise); with headers enabled
\* its first chunk is the headers and its second '\r\n\r\n', and body
\* chunks come only after both; with headers disabled every chunk is a body
\* chunk or the closing notice; with body disabled no body chunk is
\* yielded, and a headers-only stream iterated to its end has yielded
\* exactly the headers and '\r\n\r\n'.
C27_ChunkOrder ==
    /\ ostream.pc # "none" => (ostream.with_headers \/ ostream.with_body)
    /\ (ostream.pc = "none" /\ last.op \in {"RawStream", "EncodedStream"} \cup PrettyClasses)
         => last.error = "AssertionError"
    /\ ostream.with_headers =>
         /\ Len(written) >= 1 => written[1] = HeadersChunk
         /\ Len(written) >= 2 => written[2] = <<"\r", "\n", "\r", "\n">>
         /\ ostream.chunks > 0 => Len(written) >= 2 + ostream.chunks
         /\ ostream.pc = "done" => Len(written) >= 2
    /\ (~ostream.with_headers) =>
         /\ Len(written) \in {ostream.chunks, ostream.chunks + 1}
         /\ Len(written) = ostream.chunks + 1
              => written[Len(written)] = BINARY_SUPPRESSED_NOTICE
    /\ (~ostream.with_body) => ostream.chunks = 0 /\ Len(written) <= 2
    /\ (ostream.pc = "done" /\ ostream.with_headers /\ ~ostream.with_body)
         => written = <<HeadersChunk, <<"\r", "\n", "\r", "\n">> >>

\* A headers-only PrettyStream has been iterated to its end and has yielded
\* the sorted headers and the separator.
C27_Witness ==
    /\ ostream.cls = "PrettyStream"
    /\ ostream.pc = "done"
    /\ ~ostream.with_body
    /\ written = << <<"H", "\r", "\n", "a", "\r", "\n", "b">>,
                    <<"\r", "\n", "\r", "\n">> >>

\* Where the notice is in the output
NoticeIndexes == {i \in 1..Len(written) : written[i] = BINARY_SUPPRESSED_NOTICE}

\* C21 as stated: the output of a stream holds at most one notice chunk;
\* the notice is the last chunk, nothing is left to yield after it, and
\* the chunk before it is '\n' exactly when headers were emitted.
C21_NoticeLastAfterNewline ==
    /\ Cardinality(NoticeIndexes) <= 1
    /\ \A i \in NoticeIndexes :
          /\ i = Len(written)
          /\ ostream.pc \in {"end", "done"}
          /\ (i > 1 /\ written[i - 1] = <<"\n">>) <=> ostream.with_headers

\* C21 as amended: the output of a stream holds at most one notice chunk;
\* the notice is the last chunk and nothing is left to yield after it; when
\* headers were emitted one '\n' chunk stands between the body chunks and
\* the notice, and when they were not the notice comes right after the
\* body chunks (the last of which can itself be '\n', an empty line).
C21_NoticeLastAfterSeparator ==
    /\ Cardinality(NoticeIndexes) <= 1
    /\ \A i \in NoticeIndexes :
          /\ i = Len(written)
          /\ ostream.pc \in {"end", "done"}
          /\ ostream.with_headers =>
                (i = ostream.chunks + 4 /\ written[i - 1] = <<"\n">>)
          /\ (~ostream.with_headers) => i = ostream.chunks + 1

\* A PrettyStream with headers has yielded one body line, the '\n' and the
\* notice, and has ended.
C21_Witness ==
    /\ ostream.cls = "PrettyStream"
    /\ ostream.with_headers
    /\ ostream.pc = "done"
    /\ ostream.chunks = 1
    /\ Len(written) = 5
    /\ written[4] = <<"\n">>
    /\ written[5] = BINARY_SUPPRESSED_NOTICE

\* C22: no call on a stream ends with BinarySuppressedError: when iter_body
\* raises it, the same next() returns normally with the '\n' (headers
\* emitted) or the notice as its chunk, and the next() after the '\n'
\* returns the notice.
C22_SignalCaught ==
    [][/\ last'.error # "BinarySuppressedError"
       /\ (/\ ostream.pc = "body"
           /\ ostream' # ostream
           /\ iter_body(ostream, message, 1).kind = "suppressed")
          => (/\ last' = [op |-> "next", error |-> ""]
              /\ written' = Append(written, IF ostream.with_headers THEN <<"\n">>
                                            ELSE BINARY_SUPPRESSED_NOTICE)
              /\ ostream'.pc = IF ostream.with_headers THEN "notice" ELSE "end")
       /\ (ostream.pc = "notice" /\ ostream' # ostream)
          => (/\ last' = [op |-> "next", error |-> ""]
              /\ written' = Append(written, BINARY_SUPPRESSED_NOTICE))]_vars

\* A BufferedPrettyStream without headers has met a NUL byte with no
\* converter, and the next() that met it returned the notice.
C22_Witness ==
    /\ ostream.cls = "BufferedPrettyStream"
    /\ ostream.pc = "end"
    /\ ostream.chunks = 0
    /\ written = <<BINARY_SUPPRESSED_NOTICE>>
    /\ last = [op |-> "next", error |-> ""]

\* The chunks a stream yields in place of the body once it has met binary
\* data it will not show
NoticeTail ==
    IF ostream.with_headers THEN <<(<<"\n">>), BINARY_SUPPRESSED_NOTICE>>
    ELSE <<BINARY_SUPPRESSED_NOTICE>>

\* C23: for a PrettyStream whose first body line holds a NUL byte: if a
\* converter supports the message's mime, the stream yields no notice and
\* at most one body chunk, which is every line with its line feed, joined,
\* converted, formatted under the converter's mime and encoded, after
\* which iteration ends (with that chunk yielded, unless convert raised);
\* if none does, the stream yields no body chunk and its body portion, once
\* iteration has ended, is the notice.
C23_FirstLineNul ==
    LET lines == HTTPMessage_iter_lines(message)
        converter == Conversion_get_converter(ostream.conversion,
                                              MimeOf(message.content_type))
        c == ConverterPlugin_convert(
                 Val(converter),
                 Concat([i \in 1..Len(lines) |-> lines[i].line \o lines[i].lf]))
    IN  (/\ ostream.cls = "PrettyStream"
         /\ ostream.with_body
         /\ lines # <<>>
         /\ HasNul(lines[1].line))
        => IF IsNone(converter)
           THEN /\ ostream.chunks = 0
                /\ ostream.pc \in {"end", "done"} => BodyPortion = NoticeTail
           ELSE /\ NoticeIndexes = {}
                /\ ostream.chunks <= 1
                /\ ostream.chunks = 1 =>
                      /\ ostream.pos = Len(lines)
                      /\ BodyPortion =
                            <<Encode(Formatting_format_body(ostream.formatting,
                                                            c.body, c.mime),
                                     ostream.output_encoding)>>
                /\ (ostream.pc = "done" /\ c.error = "") => ostream.chunks = 1

\* A PrettyStream has converted the msgpack body b'\0\n' to the JSON text
\* '1\n' and yielded it reformatted, '1', as its only chunk.
C23_Witness ==
    /\ ostream.cls = "PrettyStream"
    /\ ostream.pc = "done"
    /\ message.kind = "response"
    /\ message.body = <<"NUL", "\n">>
    /\ ostream.mime = JsonType
    /\ written = << <<"1">> >>

\* C24: a BufferedPrettyStream yields at most one body chunk, and only once
\* the complete body has been read; when the body holds a NUL byte and no
\* converter supports the mime it yields no body chunk and its body
\* portion, once iteration has ended, is the notice; otherwise it yields no
\* notice, and its one body chunk (yielded by the end of the iteration,
\* unless convert raised) is the complete body, converted if it holds a NUL
\* byte, decoded otherwise, then formatted and encoded.
C24_BufferedWholeBody ==
    LET body == message.body
        mime == MimeOf(message.content_type)
        converter == IF HasNul(body)
                     THEN Conversion_get_converter(ostream.conversion, mime)
                     ELSE None
        c == ConverterPlugin_convert(Val(converter), body)
        text == IF IsNone(converter) THEN DecodeReplace(body, message.encoding)
                ELSE c.body
        text_mime == IF IsNone(converter) THEN mime ELSE c.mime
    IN  (ostream.cls = "BufferedPrettyStream" /\ ostream.with_body)
        => /\ ostream.chunks <= 1
           /\ ostream.chunks = 1 => ostream.pos = Len(body)
           /\ IF HasNul(body) /\ IsNone(converter)
              THEN /\ ostream.chunks = 0
                   /\ ostream.pc \in {"end", "done"} => BodyPortion = NoticeTail
              ELSE /\ NoticeIndexes = {}
                   /\ ostream.chunks = 1 =>
                         BodyPortion =
                            <<Encode(Formatting_format_body(ostream.formatting,
                                                            text, text_mime),
                                     ostream.output_encoding)>>
                   /\ (ostream.pc = "done" /\ (IsNone(converter) \/ c.error = ""))
                         => ostream.chunks = 1

\* A BufferedPrettyStream has read the JSON response body b'1\n' to its end
\* and yielded it reformatted, '1', as its only chunk.
C24_Witness ==
    /\ ostream.cls = "BufferedPrettyStream"
    /\ ostream.pc = "done"
    /\ message.kind = "response"
    /\ message.body = <<"1", "\n">>
    /\ ostream.pos = 2
    /\ written = << <<"1">> >>

\* A body formatter fails on the text: it does not parse as JSON under a
\* JSON mime, or as XML under an XML mime.
FormatterFails(text, mime) ==
    \/ "json" \in Range(mime) /\ json_loads(text).error # ""
    \/ "xml" \in Range(mime) /\ ElementTree_fromstring(text).error # ""

\* C29: while a PrettyStream or BufferedPrettyStream processes a body, no
\* error of a formatter or of a converter ends a next() of the consumer,
\* and a BufferedPrettyStream whose formatter fails on a body without NUL
\* bytes has yielded, by the end of the iteration, the body unformatted
\* (decoded and encoded only).
C29_FailuresRecovered ==
    (ostream.cls \in PrettyClasses /\ ostream.with_body)
    => /\ last.error \notin {"ValueError", "ParseError", "ConverterError"}
       /\ (/\ ostream.cls = "BufferedPrettyStream"
           /\ ostream.pc = "done"
           /\ ostream.formatting # <<>>
           /\ ~HasNul(message.body)
           /\ FormatterFails(DecodeReplace(message.body, message.encoding),
                             MimeOf(message.content_type)))
          => BodyPortion = <<Encode(DecodeReplace(message.body, message.encoding),
                                    ostream.output_encoding)>>

(***************************************************************************)
(* Claims about the final summary                                           *)
(***************************************************************************)
\* C30: every summary written reports, as the bytes transferred, the final
\* status.downloaded minus status.resumed_from, which is the number of
\* bytes the chunk callbacks reported in this run; as the time,
\* time_finished - time_started; and as the average speed the bytes
\* transferred divided by that time, or the bytes transferred themselves
\* when the time is zero.
C30_SummaryOfThisRun ==
    \A i \in 1..Len(output.summaries) :
        LET summary == output.summaries[i]
            elapsed == Val(status.time_finished) - Val(status.time_started)
        IN  /\ summary.downloaded = status.downloaded - status.resumed_from
            /\ summary.downloaded = stream.reported
            /\ summary.time = elapsed
            /\ summary.speed = IF elapsed = 0 THEN <<summary.downloaded, 1>>
                               ELSE <<summary.downloaded, elapsed>>

\* The summary of a download resumed from byte 1 that received two bytes
\* with no time elapsed reports two bytes and the speed 2.
C30_Witness ==
    /\ status.resumed_from = 1
    /\ status.downloaded = 3
    /\ status.time_finished = status.time_started
    /\ output.summaries = <<[downloaded |-> 2, time |-> 0, speed |-> <<2, 1>>]>>

(***************************************************************************)
(* Claims about the choice of the stream class and the assembly             *)
(***************************************************************************)
\* C25: get_stream_type returns RawStream exactly when stdout is not a
\* terminal and prettify is off, with the line-sized chunk size when
\* streaming is asked for and the large one otherwise; in every other case
\* it returns PrettyStream when prettify and streaming are on,
\* BufferedPrettyStream when prettify is on without streaming, and
\* EncodedStream when prettify is off.
C25_StreamType ==
    ~IsNone(build.Stream) =>
        LET Stream == Val(build.Stream)
            tty == build.env.stdout_isatty
            pretty == build.args.prettify # <<>>
            streaming == build.args.stream
        IN  /\ Stream.cls = "RawStream" <=> (~tty /\ ~pretty)
            /\ Stream.cls = "RawStream" =>
                  Stream.chunk_size = Some(IF streaming THEN RawStream_CHUNK_SIZE_BY_LINE
                                           ELSE RawStream_CHUNK_SIZE)
            /\ Stream.cls = "PrettyStream" <=> (pretty /\ streaming)
            /\ Stream.cls = "BufferedPrettyStream" <=> (pretty /\ ~streaming)
            /\ Stream.cls = "EncodedStream" <=> (tty /\ ~pretty)

\* get_stream_type has returned BufferedPrettyStream for prettified output
\* that is redirected.
C25_Witness ==
    /\ ~IsNone(build.Stream)
    /\ Val(build.Stream).cls = "BufferedPrettyStream"
    /\ ~build.env.stdout_isatty
    /\ build.args.prettify = <<"format">>
    /\ ~build.args.stream

\* C26: the chain build_output_stream returns is, in this order: the
\* request sub-stream iff request headers or body are asked for, b'\n\n'
\* iff the request body and some part of the response are asked for, the
\* response sub-stream iff response headers or body are asked for, and
\* b'\n\n' iff stdout is a terminal and the response body is asked for; each
\* sub-stream is of the class get_stream_type chooses, with the headers and
\* body flags asked for; redirected output never ends with the b'\n\n'.
C26_OutputOrder ==
    ~IsNone(build.output) =>
        LET output_ == Val(build.output)
            opts == build.args.output_options
            req == {"OUT_REQ_HEAD", "OUT_REQ_BODY"} \cap opts # {}
            resp == {"OUT_RESP_HEAD", "OUT_RESP_BODY"} \cap opts # {}
            sub(msg, h, b) ==
                [msg |-> msg, Stream |-> Some(get_stream_type(build.env, build.args)),
                 with_headers |-> h \in opts, with_body |-> b \in opts,
                 chunks |-> <<>>]
            sep == [msg |-> "", Stream |-> None, with_headers |-> FALSE,
                    with_body |-> FALSE, chunks |-> << <<"\n", "\n">> >>]
            n1 == IF req THEN 1 ELSE 0
            n2 == n1 + (IF "OUT_REQ_BODY" \in opts /\ resp THEN 1 ELSE 0)
            n3 == n2 + (IF resp THEN 1 ELSE 0)
            n4 == n3 + (IF build.env.stdout_isatty /\ "OUT_RESP_BODY" \in opts
                        THEN 1 ELSE 0)
        IN  /\ Len(output_) = n4
            /\ n1 = 1 => output_[1] = sub("request", "OUT_REQ_HEAD", "OUT_REQ_BODY")
            /\ n2 > n1 => output_[n2] = sep
            /\ n3 > n2 => output_[n3] = sub("response", "OUT_RESP_HEAD", "OUT_RESP_BODY")
            /\ n4 > n3 => output_[n4] = sep
            /\ (~build.env.stdout_isatty /\ n4 > 0) => output_[n4] # sep

\* The chain for all four parts on a terminal: request, b'\n\n', response,
\* b'\n\n'.
C26_Witness ==
    /\ ~IsNone(build.output)
    /\ build.env.stdout_isatty
    /\ build.args.output_options = OutputOptions
    /\ Len(Val(build.output)) = 4
    /\ Val(build.output)[2] = BlankLines
    /\ Val(build.output)[4] = BlankLines
    /\ Val(build.output)[3].msg = "response"

(***************************************************************************)
(* Claims about the name of the output file                                 *)
(***************************************************************************)
\* C28: get_unique_filename returns the name itself when no file of that
\* name exists, and otherwise the name with the suffix '-k' for the
\* smallest k >= 1 for which no such file exists, the name and every
\* suffixed name before it existing; no file of the returned name exists.
C28_UniqueFilename ==
    ~IsNone(naming.unique) =>
        LET unique == Val(naming.unique)
        IN  /\ unique \notin naming.exists
            /\ naming.filename \notin naming.exists => unique = naming.filename
            /\ naming.filename \in naming.exists =>
                  \E k \in 1..(MaxAttempt + 1) :
                      /\ unique = naming.filename \o <<"-">> \o FormatInt(k)
                      /\ \A j \in 1..(k - 1) :
                            naming.filename \o <<"-">> \o FormatInt(j) \in naming.exists

\* 'f' and 'f-1' exist, 'f-2' does not, and get_unique_filename('f') has
\* returned 'f-2'.
C28_Witness ==
    /\ naming.filename = <<"f">>
    /\ {<<"f">>, <<"f", "-", "1">>} \subseteq naming.exists
    /\ naming.unique = Some(<<"f", "-", "2">>)

\* The unit C31 names for n: the largest of B, kB, MB, GB, TB, PB whose
\* threshold 1024 ^ e is at most n, and B for 0.
C31_Unit(n) ==
    IF n = <<>> THEN 0
    ELSE CHOOSE e \in 0..5 : Len(n) > e /\ \A f \in 0..5 : Len(n) > f => f <= e

C31_UnitNames == << <<"B">>, <<"k", "B">>, <<"M", "B">>, <<"G", "B">>, <<"T", "B">>, <<"P", "B">> >>

\* What C31 says of one call that returned or raised.
C31_Rendered(n, precision, out) ==
    /\ out.error = ""
    /\ n = <<1>> => out.obj = <<"1", " ", "B">>
    /\ n # <<1>> =>
          /\ out.obj = FormatQuotient(n, C31_Unit(n), precision) \o <<" ">>
                       \o C31_UnitNames[C31_Unit(n) + 1]
          /\ precision > 0 =>
                out.obj[Len(out.obj) - Len(C31_UnitNames[C31_Unit(n) + 1]) - 1 - precision] = "."
          /\ precision = 0 => \A i \in DOMAIN out.obj : out.obj[i] # "."

\* C31: for every byte count n >= 0, humanize_bytes(n, p) never raises and
\* returns n divided by the threshold of the largest unit among B, kB, MB,
\* GB, TB, PB whose threshold is at most n (B for 0), with p decimals,
\* followed by the unit; for n == 1 it returns exactly '1 B'.
C31_Humanized ==
    ~IsNone(humanize.out) =>
        C31_Rendered(humanize.n, humanize.precision, Val(humanize.out))

\* C31 for the byte counts whose quotient fits a float: the same, with the
\* counts left out for which the division raises OverflowError.
C31_HumanizedWithinFloat ==
    (~IsNone(humanize.out) /\ Len(humanize.n) <= MaxDigits) =>
        C31_Rendered(humanize.n, humanize.precision, Val(humanize.out))

\* 1024 ** 5 - 1 bytes were humanized with two decimals: '1024.00 TB'.
C31_Witness ==
    /\ humanize.n = <<1023, 1023, 1023, 1023, 1023>>
    /\ humanize.precision = 2
    /\ humanize.out = Some(Ok(<<"1", "0", "2", "4", ".", "0", "0", " ", "T", "B">>))

(***************************************************************************)
(* Claims about the progress line                                           *)
(***************************************************************************)

\* This step is a report_speed() that recomputes the progress line.
Recomputes ==
    /\ reporter.pc = "report_speed"
    /\ reporter'.pc = "while"
    /\ clock - reporter.prev_time >= UpdateInterval

\* C32: whenever the total size is known, a known total of 0 included, the
\* line report_speed recomputes has the percentage and ETA form, with a
\* percentage of 0 when the total is 0 and the ETA '-:--:--' when the speed
\* is zero; the form with downloaded bytes and speed only is used only when
\* the total size is unknown.
C32_FormByKnownTotal ==
    [][Recomputes =>
          LET line == reporter'.status_line
          IN  /\ line.form = "PROGRESS_NO_CONTENT_LENGTH" <=> IsNone(status.total_size)
              /\ line.form = "PROGRESS" <=> ~IsNone(status.total_size)
              /\ (line.form = "PROGRESS" /\ Val(status.total_size) = 0)
                    => line.percentage = <<0, 1>>
              /\ (line.form = "PROGRESS" /\ line.speed[1] = 0) => IsNone(line.eta)]_vars

\* C32 for the totals that are not 0.
C32_FormByNonzeroTotal ==
    [][(Recomputes /\ status.total_size # Some(0)) =>
          LET line == reporter'.status_line
          IN  /\ line.form = "PROGRESS_NO_CONTENT_LENGTH" <=> IsNone(status.total_size)
              /\ line.form = "PROGRESS" <=> ~IsNone(status.total_size)
              /\ (line.form = "PROGRESS" /\ line.speed[1] = 0) => IsNone(line.eta)]_vars

\* This step is a report_speed().
ReportsSpeed == reporter.pc = "report_speed" /\ reporter'.pc = "while"

\* C34: a report_speed() with less than the update interval elapsed since
\* the last speed sample leaves the progress line and the sample (bytes and
\* time) as they were, renders the line again and advances the spinner by
\* one modulo 4; the line and the sample change only in a report_speed()
\* with at least the update interval elapsed.
C34_ThrottledTick ==
    [][ReportsSpeed =>
          /\ clock - reporter.prev_time < UpdateInterval =>
                /\ UNCHANGED <<reporter.status_line, reporter.prev_bytes, reporter.prev_time>>
                /\ output'.rendered = Some([spinner |-> reporter.spinner_pos,
                                            line |-> reporter.status_line])
                /\ reporter'.spinner_pos = (reporter.spinner_pos + 1) % 4
          /\ <<reporter.status_line, reporter.prev_bytes, reporter.prev_time>>'
                # <<reporter.status_line, reporter.prev_bytes, reporter.prev_time>>
                => clock - reporter.prev_time >= UpdateInterval]_vars

\* Two ticks were made and the clock moved once: one of the two recomputed
\* the line that is on display and the other did not.
C34_Witness ==
    /\ reporter.spinner_pos = 2
    /\ reporter.prev_time = clock
    /\ reporter.status_line.form = "PROGRESS"
    /\ status.downloaded > reporter.prev_bytes
    /\ output.rendered = Some([spinner |-> 1, line |-> reporter.status_line])

\* C38: for a resumed download, the first speed sample of the reporter
\* measures only the bytes received since start(): the byte delta of the
\* displayed speed (and so of the ETA) leaves out the resumed_from bytes
\* that were on disk already.
C38_FirstSampleSinceStart ==
    [][(Recomputes /\ reporter.status_line = EmptyLine /\ status.resumed_from > 0) =>
          reporter'.status_line.speed[1] = status.downloaded - status.resumed_from]_vars

\* C39: however the reporter's ticks interleave with the chunk callbacks of
\* the foreground, at each speed sample the byte count of the previous
\* sample is at most the status.downloaded just read, so that the speed is
\* never negative and the downloaded amount on display never decreases from
\* one recomputed line to the next.
C39_SamplesMonotone ==
    [][Recomputes =>
          /\ reporter.prev_bytes <= status.downloaded
          /\ reporter'.status_line.speed[1] >= 0
          /\ reporter'.status_line.downloaded >= reporter.status_line.downloaded]_vars

\* A resumed download was sampled twice, one second apart, a byte having
\* arrived between the samples.
C39_Witness ==
    /\ status.resumed_from > 0
    /\ reporter.prev_time = MaxTime + 1
    /\ reporter.status_line.speed = <<1, 1>>
    /\ reporter.prev_bytes = status.resumed_from + 2

(***************************************************************************)
(* PrettyStream against BufferedPrettyStream                                *)
(***************************************************************************)

\* C33: when a converter supports the message's mime and the first NUL byte
\* of the body comes after its first line, a PrettyStream whose iteration
\* has ended has yielded each line before the one with the NUL byte,
\* formatted on its own under the message's mime, and then the notice, its
\* mime left as it was (the converter was not used), while a
\* BufferedPrettyStream whose iteration has ended has yielded no notice and
\* one body chunk, the whole body converted, formatted under the
\* converter's mime and encoded.
C33_PrettyAgainstBuffered ==
    LET lines == HTTPMessage_iter_lines(message)
        mime == MimeOf(message.content_type)
        converter == Conversion_get_converter(ostream.conversion, mime)
        c == ConverterPlugin_convert(Val(converter), message.body)
        nul == CHOOSE k \in 1..Len(lines) :
                   HasNul(lines[k].line) /\ \A j \in 1..(k - 1) : ~HasNul(lines[j].line)
    IN  (/\ ostream.with_body
         /\ HasNul(message.body)
         /\ ~HasNul(lines[1].line)
         /\ ~IsNone(converter)
         /\ c.error = "")
        => /\ (ostream.cls = "PrettyStream" /\ ostream.pc \in {"end", "done"}) =>
                 /\ BodyPortion =
                       [i \in 1..(nul - 1) |->
                          Encode(Formatting_format_body(
                                     ostream.formatting,
                                     DecodeReplace(lines[i].line, message.encoding), mime),
                                 ostream.output_encoding) \o lines[i].lf]
                       \o NoticeTail
                 /\ ostream.mime = mime
           /\ (ostream.cls = "BufferedPrettyStream" /\ ostream.pc = "done") =>
                 /\ NoticeIndexes = {}
                 /\ BodyPortion =
                       <<Encode(Formatting_format_body(ostream.formatting, c.body, c.mime),
                                ostream.output_encoding)>>
                 /\ ostream.mime = c.mime

\* A PrettyStream given a converter for msgpack has yielded the first line
\* of the body b'1\n\0', '1\n', and then the notice.
C33_Witness ==
    /\ ostream.cls = "PrettyStream"
    /\ ostream.pc = "done"
    /\ message.body = <<"1", "\n", "NUL">>
    /\ ~IsNone(Conversion_get_converter(ostream.conversion, ostream.mime))
    /\ written = << <<"1", "\n">>, BINARY_SUPPRESSED_NOTICE >>

\* A BufferedPrettyStream given the same has yielded the body converted to
\* JSON text as its one chunk.
C33_WitnessBuffered ==
    /\ ostream.cls = "BufferedPrettyStream"
    /\ ostream.pc = "done"
    /\ message.body = <<"1", "\n", "NUL">>
    /\ ~IsNone(Conversion_get_converter(ostream.conversion, MimeOf(message.content_type)))
    /\ Len(written) = 1
    /\ ostream.mime = JsonType

(***************************************************************************)
(* Claims about the calls of a download                                     *)
(***************************************************************************)

\* C35: in every state after start(), status.downloaded is resumed_from
\* plus the lengths of the body chunks whose callback has run, is at most
\* resumed_from plus the bytes yielded, and equals it once the stream has
\* raised StopIteration; the bytes yielded and not yet counted are those of
\* the one chunk handed out last, whose callback runs in the consumer's
\* next request before another chunk is produced, and the stream yields
\* body chunks only (no header, separator or notice chunk is counted).
C35_DownloadedCounts ==
    /\ [](~IsNone(status.time_started) =>
            /\ status.downloaded = status.resumed_from + stream.reported
            /\ status.downloaded <= status.resumed_from + stream.yielded
            /\ stream.state # "failed" => stream.yielded = stream.reported + stream.pending
            /\ stream.yielded + stream.body_left = response.body_len
            /\ stream.state = "exhausted" =>
                  status.downloaded = status.resumed_from + stream.yielded)
    /\ [][(~IsNone(status.time_started) /\ status'.downloaded # status.downloaded) =>
             /\ stream.pending > 0
             /\ status'.downloaded = status.downloaded + stream.pending
             /\ stream'.reported = stream.reported + stream.pending
             /\ stream'.yielded - stream.yielded = stream'.pending]_vars

\* A resumed download was read to its end in two chunks: both were counted.
C35_Witness ==
    /\ stream.state = "exhausted"
    /\ status.resumed_from = 1
    /\ stream.yielded = 2
    /\ stream.reported = 2
    /\ status.downloaded = 3

\* C36: in every reachable state, Download.finished is true only if the
\* Status has its finish timestamp set; a finish() that fails, such as one
\* made before start(), leaves Download.finished false.
C36_FinishedOnlyIfStatusFinished ==
    download.finished => ~IsNone(status.time_finished)

\* C37: a start() that raises a Content-Range error was given a 206
\* response by a resuming Download, and leaves the download as it was
\* before the call: the Status not started (no start timestamp, downloaded
\* 0), the output file not truncated, no banner written, the reporter
\* thread not started and no stream made.
C37_ContentRangeErrorChangesNothing ==
    [][(IsCall("start") /\ last'.error = "ContentRangeError") =>
          /\ download.resume /\ response.status_code = PARTIAL_CONTENT
          /\ UNCHANGED <<status, download, file, stream, reporter, output, should_stop,
                         request_headers>>
          /\ IsNone(status'.time_started)
          /\ status'.downloaded = 0
          /\ IsNone(output'.banner)
          /\ reporter'.pc = "new"]_vars

\* start() has raised a Content-Range error for a 206 response without the
\* header, the two bytes of the file still there.
C37_Witness ==
    /\ last = [op |-> "start", error |-> "ContentRangeError"]
    /\ IsNone(response.content_range)
    /\ download.resumed_from = 2
    /\ file.size = 2
    /\ status = Status_init
    /\ IsNone(output.banner)
    /\ reporter.pc = "new"

====
